---- MODULE Spec2Model ----
(***************************************************************************)
(* JunkDash: vehicle dynamics and cargo containment.                       *)
(*                                                                         *)
(* State machine of the Truck drivetrain (updateDriving), its collision    *)
(* broker (checkMeshCollision), the cargo stabilizer passes                *)
(* (updateLoadedItems before the physics step, enforceItemBounds after     *)
(* it), the Game update and the render loop that orders them.             *)
(*                                                                         *)
(* Numbers are fixed-point integers:                                       *)
(*   lengths mm, times ms, angles mrad, speeds milli-mph (drivetrain) and  *)
(*   mm/s (bodies), angular speeds mrad/s, turn input in 1/1000.           *)
(* A JS number that the code divides or multiplies by a fraction is        *)
(* truncated toward zero at that resolution (TruncDiv).                    *)
(***************************************************************************)
EXTENDS Integers, Sequences, FiniteSets, TLC

\* ------------------------------------------------------------------------
\* Arithmetic helpers (Math.abs, Math.min, Math.max, Math.sign, Math.round,
\* Math.sqrt, Math.sin, Math.cos at the model's resolution)
\* ------------------------------------------------------------------------

Abs(x) == IF x < 0 THEN -x ELSE x

Min(a, b) == IF a < b THEN a ELSE b

Max(a, b) == IF a > b THEN a ELSE b

Sign(x) == IF x > 0 THEN 1 ELSE IF x < 0 THEN -1 ELSE 0

\* a / b for b > 0, truncated toward zero.
TruncDiv(a, b) == IF a >= 0 THEN a \div b ELSE -((-a) \div b)

\* Math.round(a / n) for n > 0: nearest integer, halves toward +infinity.
RoundDiv(a, n) == (2 * a + n) \div (2 * n)

RECURSIVE SqrtSearch(_, _, _)
SqrtSearch(n, lo, hi) ==
    IF lo >= hi THEN lo
    ELSE LET mid == (lo + hi + 1) \div 2
         IN  IF mid * mid <= n THEN SqrtSearch(n, mid, hi)
             ELSE SqrtSearch(n, lo, mid - 1)

\* Math.sqrt(n), rounded down.
ISqrt(n) == SqrtSearch(n, 0, 46340)

\* Math.PI in mrad.
PI == 3142

\* sin(x) * 1000 for x in [0, PI] mrad (Bhaskara's rational approximation,
\* 16p / (5 PI^2 - 4p) with p = x (PI - x); exact at 0, PI/2 and PI).
SinHalfTurn(x) ==
    LET p == x * (PI - x)
    IN  (500 * p) \div ((5 * PI * PI - 4 * p) \div 32)

\* Math.sin(a) * 1000, a in mrad.
Sin(a) ==
    LET x == a % (2 * PI)
    IN  IF x <= PI THEN SinHalfTurn(x) ELSE -SinHalfTurn(x - PI)

\* Math.cos(a) * 1000, a in mrad.
Cos(a) == Sin(a + PI \div 2)

\* ------------------------------------------------------------------------
\* Truck constants (Truck constructor and create())
\* ------------------------------------------------------------------------

cargoLength == 4800

cargoWidth == 2400

floorTopY == 1250

\* mph * 1000
maxSpeed == 110000

\* mph/s
deceleration == 18

\* mph/s
brakeDeceleration == 60

\* mrad/s
turnSpeed == 1900

rearAxleOffset == 2500

\* gearSpeeds[g + 1] is the code's gearSpeeds[g], milli-mph.
gearSpeeds == <<0, 25000, 50000, 75000, 95000, 110000>>

gearDownSpeeds == <<0, 20000, 45000, 70000, 90000, 105000>>

\* gearAcceleration[g + 1] is the code's gearAcceleration[g], milli-mph/s.
gearAcceleration == <<12000, 12000, 8000, 5000, 3000, 1500>>

\* updateDriving caps its frame time at 0.05 s.
MaxDriveDt == 50

\* The render loop hands updateDriving at most 0.1 s.
MaxLoopDelta == 100

\* applyAutoBrake(0.7) on arrival, ms.
ArrivalBrakeMs == 700

\* Collision proxies, parented to the truck root: half extents and the
\* cab proxy's local z.
CargoProxyHalfX == 1300

CargoProxyHalfZ == 2400

CabProxyHalfX == 1100

CabProxyHalfZ == 900

CabProxyLocalZ == -3400

\* collisionRadiusXZ = Math.hypot(1.3, 4.3)
TruckHalfWidth == 1300

TruckHalfLength == 4300

collisionRadiusXZ == ISqrt(TruckHalfWidth * TruckHalfWidth + TruckHalfLength * TruckHalfLength)

\* SceneManager.groundTileSize
groundTileSize == 50000

\* ------------------------------------------------------------------------
\* Geometry: boxes on the ground plane
\* ------------------------------------------------------------------------

\* A node with rotation.y = r maps its local point (lx, lz) to the world
\* offset (lx cos r + lz sin r, -lx sin r + lz cos r): local +z points along
\* (sin r, cos r), the direction updateDriving moves the truck in.
RootToWorldX(lx, lz, r) == TruncDiv(lx * Cos(r) + lz * Sin(r), 1000)

RootToWorldZ(lx, lz, r) == TruncDiv(lz * Cos(r) - lx * Sin(r), 1000)

WorldToRootX(dx, dz, r) == TruncDiv(dx * Cos(r) - dz * Sin(r), 1000)

WorldToRootZ(dx, dz, r) == TruncDiv(dx * Sin(r) + dz * Cos(r), 1000)

\* A box mesh: centre, half extents, and the cosine and sine of rotation.y.
Box(cx, cz, hx, hz, rot) ==
    [cx |-> cx, cz |-> cz, hx |-> hx, hz |-> hz, c |-> Cos(rot), s |-> Sin(rot)]

\* World directions (scaled by 1000) of a box's local x and z axes.
BoxAxes(b) == { <<b.c, -b.s>>, <<b.s, b.c>> }

\* Half-length of the projection of box b on direction L (mm * 1000).
ProjectedRadius(b, L) ==
    b.hx * (Abs(b.c * L[1] - b.s * L[2]) \div 1000)
  + b.hz * (Abs(b.s * L[1] + b.c * L[2]) \div 1000)

SeparatedAlong(a, b, L) ==
    Abs((b.cx - a.cx) * L[1] + (b.cz - a.cz) * L[2])
        > ProjectedRadius(a, L) + ProjectedRadius(b, L)

\* mesh.intersectsMesh(other, true): oriented boxes overlap unless one of
\* their face normals separates them (the boxes all stand on the ground and
\* overlap in height, so the test is the planar one).
intersectsMesh(a, b) ==
    ~ \E L \in BoxAxes(a) \cup BoxAxes(b) : SeparatedAlong(a, b, L)

\* The two collision proxies with the truck root at (x, z), heading r.
TruckProxies(x, z, r) ==
    { Box(x, z, CargoProxyHalfX, CargoProxyHalfZ, r),
      Box(x + RootToWorldX(0, CabProxyLocalZ, r),
          z + RootToWorldZ(0, CabProxyLocalZ, r),
          CabProxyHalfX, CabProxyHalfZ, r) }

\* ------------------------------------------------------------------------
\* State
\* ------------------------------------------------------------------------

VARIABLES
    \* Truck
    position,            \* [x, z]
    rotation,
    speed,
    currentGear,
    autoBrakeTimer,
    turnInput,
    turnRate,
    driftAngle,
    isDrifting,
    keys,                \* the held keys among w a s d space
    truckWorldVel,       \* _truckWorldVelX, _truckWorldVelZ
    enableItemPhysics,
    collisionCache,      \* _collisionCache
    bedPose,             \* target transform last given to the bed bodies
    loadedItems,         \* Truck.loadedItems = ItemManager.placedItems
    \* Scene
    frameId,
    housesByTile,
    pickupHouse,         \* the pickup house, as a set of at most one
    destinationWalls,    \* the live wall meshes (empty when null)
    \* Game, UI, ItemManager
    isRunning,
    isPaused,
    fallOutTriggered,
    hasArrivedAtDestination,
    isAtPickup,
    modalBlocking,
    pickup,
    destination,
    groundItems,
    timers,              \* pending setTimeout callbacks
    outcomes,            \* the screens delivered to the round: "complete", "loss"
    menuVisible,         \* the pause menu modal is shown
    heldGroundItem,      \* id of the ground item being carried, or Null
    selectedItemId,
    previewItemDef,      \* id of the item the preview mesh shows, or Null
    now,                 \* performance.now()
    \* Render loop position and records of what the current frame did
    pc,
    frames,
    drive,
    passLog,
    probe                \* the last checkCollision(newX, newZ) query and its answer

truckVars == <<position, rotation, speed, currentGear, autoBrakeTimer, turnInput,
               turnRate, driftAngle, isDrifting, truckWorldVel, collisionCache,
               bedPose>>

sceneVars == <<housesByTile, pickupHouse, destinationWalls>>

gameVars == <<isRunning, isPaused, fallOutTriggered, hasArrivedAtDestination,
              isAtPickup, modalBlocking, pickup, destination, groundItems, timers,
              outcomes, menuVisible, heldGroundItem, selectedItemId, previewItemDef>>

vars == <<truckVars, keys, enableItemPhysics, loadedItems, frameId, sceneVars,
          gameVars, now, pc, frames, drive, passLog, probe>>

\* ------------------------------------------------------------------------
\* Collision broker: Truck.checkMeshCollision
\* ------------------------------------------------------------------------

Null == "null"

\* _collisionCache = null
NoCache == [frameId |-> -1, posX |-> 0, posZ |-> 0, rotY |-> 0, result |-> FALSE]

\* Math.hypot(a, b), rounded up.
Hypot(a, b) ==
    LET n == a * a + b * b
        r == ISqrt(n)
    IN  IF r * r = n THEN r ELSE r + 1

\* dx*dx + dz*dz <= r*r, with the squares taken in cm.
Within(dx, dz, r) ==
    /\ Abs(dx) <= r
    /\ Abs(dz) <= r
    /\ TruncDiv(dx, 10) * TruncDiv(dx, 10) + TruncDiv(dz, 10) * TruncDiv(dz, 10)
          <= (r \div 10) * (r \div 10)

\* house.collisionRadiusXZ = Math.hypot(width * 0.5, depth * 0.5)
HouseRadius(h) == Hypot(h.hx, h.hz)

HouseBox(h) == Box(h.x, h.z, h.hx, h.hz, h.rot)

\* The houses of the 3 x 3 tiles around the tested position.
NearbyTileHouses(posX, posZ) ==
    LET baseTileX == RoundDiv(posX, groundTileSize)
        baseTileZ == RoundDiv(posZ, groundTileSize)
    IN  { h \in housesByTile :
            /\ Abs(h.tile[1] - baseTileX) <= 1
            /\ Abs(h.tile[2] - baseTileZ) <= 1 }

\* The broad phase ahead of the mesh test for a house.
HouseMaxDistIgnoringTruck(h) == HouseRadius(h)

HouseMaxDist(h) == collisionRadiusXZ + HouseRadius(h)

HouseInRange(h, posX, posZ) ==
    Within(h.x - posX, h.z - posZ, HouseMaxDist(h))

ProxyHits(posX, posZ, rotY, box) ==
    \E t \in TruckProxies(posX, posZ, rotY) : intersectsMesh(t, box)

\* A scan that tests every collider still referenced, disposed or not.
MeshCollisionScanOfDisposed(posX, posZ, rotY) ==
    \/ \E h \in NearbyTileHouses(posX, posZ) :
          /\ HouseInRange(h, posX, posZ)
          /\ ProxyHits(posX, posZ, rotY, HouseBox(h))
    \/ \E h \in pickupHouse :
          /\ HouseInRange(h, posX, posZ)
          /\ ProxyHits(posX, posZ, rotY, HouseBox(h))
    \/ \E w \in destinationWalls :
          ProxyHits(posX, posZ, rotY, HouseBox(w))

\* The scan of checkMeshCollision when the cache does not answer.
MeshCollisionScan(posX, posZ, rotY) ==
    \/ \E h \in NearbyTileHouses(posX, posZ) :
          /\ ~h.disposed
          /\ HouseInRange(h, posX, posZ)
          /\ ProxyHits(posX, posZ, rotY, HouseBox(h))
    \/ \E h \in pickupHouse :
          /\ ~h.disposed
          /\ HouseInRange(h, posX, posZ)
          /\ ProxyHits(posX, posZ, rotY, HouseBox(h))
    \/ \E w \in destinationWalls :
          ~w.disposed /\ ProxyHits(posX, posZ, rotY, HouseBox(w))

\* A cache test that compares the pose only, whatever frame wrote the entry.
CacheAnswersAnyFrame(cache, posX, posZ, rotY) ==
    /\ cache # NoCache
    /\ cache.posX = posX
    /\ cache.posZ = posZ
    /\ cache.rotY = rotY

CacheAnswers(cache, posX, posZ, rotY) ==
    /\ cache # NoCache
    /\ cache.frameId = frameId
    /\ cache.posX = posX
    /\ cache.posZ = posZ
    /\ cache.rotY = rotY

\* checkMeshCollision(posX, posZ, rotY) called with _collisionCache = cache:
\* the cache it leaves, whose result field is the value it returns.
checkMeshCollision(cache, posX, posZ, rotY) ==
    IF CacheAnswers(cache, posX, posZ, rotY) THEN cache
    ELSE [frameId |-> frameId, posX |-> posX, posZ |-> posZ, rotY |-> rotY,
          result |-> MeshCollisionScan(posX, posZ, rotY)]

\* Whether the truck at this pose overlaps any live static collider of the
\* scene: the broker's answer is compared against this.
OverlapsStaticCollider(posX, posZ, rotY) ==
    \/ \E h \in housesByTile :
          ~h.disposed /\ ProxyHits(posX, posZ, rotY, HouseBox(h))
    \/ \E h \in pickupHouse :
          ~h.disposed /\ ProxyHits(posX, posZ, rotY, HouseBox(h))
    \/ \E w \in destinationWalls :
          ~w.disposed /\ ProxyHits(posX, posZ, rotY, HouseBox(w))

\* ------------------------------------------------------------------------
\* The perimeter-point check: Truck.checkCollision, countWallCollisions
\* ------------------------------------------------------------------------

\* The points along the truck outline, truck-local (x, z): half width 1.3,
\* front -4.3, back 2.4.
checkPoints ==
    { <<x, z>> : x \in {-1300, -975, -650, -325, 0, 325, 650, 975, 1300},
                 z \in {-4300, 2400} }
    \cup { <<x, z>> : x \in {-1300, 1300},
                      z \in {-3655, -3010, -2365, -1720, -1075, -430, 0, 792, 1584} }

\* The number of (collider, point) pairs with the point inside the collider
\* when the truck stands at (atX, atZ): the wall bounds (edges included),
\* and the live houses within 20 m of the candidate (newX, newZ), in the
\* house's own frame (edges excluded). The points are turned with cos and
\* sin of this.rotation.
Penetrations(atX, atZ, newX, newZ) ==
    LET c == Cos(rotation)
        s == Sin(rotation)
        wx(p) == atX + TruncDiv(p[1] * c - p[2] * s, 1000)
        wz(p) == atZ + TruncDiv(p[1] * s + p[2] * c, 1000)
        inWall(w, p) ==
            LET ex == IF w.rot = 0 THEN w.hx ELSE w.hz
                ez == IF w.rot = 0 THEN w.hz ELSE w.hx
            IN  /\ wx(p) >= w.x - ex /\ wx(p) <= w.x + ex
                /\ wz(p) >= w.z - ez /\ wz(p) <= w.z + ez
        inHouse(h, p) ==
            /\ Abs(TruncDiv((wx(p) - h.x) * Cos(-h.rot) - (wz(p) - h.z) * Sin(-h.rot),
                            1000)) < h.hx
            /\ Abs(TruncDiv((wx(p) - h.x) * Sin(-h.rot) + (wz(p) - h.z) * Cos(-h.rot),
                            1000)) < h.hz
        near == { h \in housesByTile \cup pickupHouse :
                    ~h.disposed /\ Within(h.x - newX, h.z - newZ, 20000) }
    IN  Cardinality({ wp \in destinationWalls \X checkPoints : inWall(wp[1], wp[2]) })
        + Cardinality({ hp \in near \X checkPoints : inHouse(hp[1], hp[2]) })

\* A check that lets a stuck truck make any move that does not add
\* penetrating points.
checkCollisionAllowingEqual(newX, newZ) ==
    IF Penetrations(position.x, position.z, newX, newZ) > 0
    THEN Penetrations(newX, newZ, newX, newZ)
             > Penetrations(position.x, position.z, newX, newZ)
    ELSE Penetrations(newX, newZ, newX, newZ) > 0

\* checkCollision(newX, newZ): TRUE when the move is to be blocked.
checkCollision(newX, newZ) ==
    IF Penetrations(position.x, position.z, newX, newZ) > 0
    THEN Penetrations(newX, newZ, newX, newZ)
             >= Penetrations(position.x, position.z, newX, newZ)
    ELSE Penetrations(newX, newZ, newX, newZ) > 0

NoProbe ==
    [asked |-> FALSE, newX |-> 0, newZ |-> 0, currentCollisions |-> 0,
     newCollisions |-> 0, blocking |-> FALSE]

\* A caller asks checkCollision about the move to position + d.
Probe(d) ==
    /\ pc = "loop"
    /\ probe' = [asked |-> TRUE,
                 newX |-> position.x + d[1],
                 newZ |-> position.z + d[2],
                 currentCollisions |->
                     Penetrations(position.x, position.z,
                                  position.x + d[1], position.z + d[2]),
                 newCollisions |->
                     Penetrations(position.x + d[1], position.z + d[2],
                                  position.x + d[1], position.z + d[2]),
                 blocking |-> checkCollision(position.x + d[1], position.z + d[2])]
    /\ UNCHANGED <<truckVars, keys, enableItemPhysics, loadedItems, frameId, sceneVars,
                   gameVars, now, pc, frames, drive, passLog>>

\* ------------------------------------------------------------------------
\* Drivetrain: Truck.updateDriving and Truck.updateGear
\* ------------------------------------------------------------------------

ReverseLimit == (maxSpeed * 3) \div 10

BrakeTowardZero(s, amount) ==
    IF s > 0 THEN Max(0, s - amount)
    ELSE IF s < 0 THEN Min(0, s + amount)
    ELSE s

\* An input branch in which only the space key brakes.
SpeedAfterInputHeedingKeys(s, ek, autoBraking, gearAccel, dt) ==
    IF "space" \in ek THEN BrakeTowardZero(s, brakeDeceleration * dt)
    ELSE IF "w" \in ek THEN
        IF s > 0 THEN Max(0, s - brakeDeceleration * dt)
        ELSE s - TruncDiv(gearAccel * dt, 1000)
    ELSE IF "s" \in ek THEN
        IF s < 0 THEN Min(0, s + brakeDeceleration * dt)
        ELSE s + TruncDiv(gearAccel * dt, 1000)
    ELSE BrakeTowardZero(s, deceleration * dt)

\* The speed after the input branch (space or auto-brake, w, s, coasting).
SpeedAfterInput(s, ek, autoBraking, gearAccel, dt) ==
    IF "space" \in ek \/ autoBraking THEN BrakeTowardZero(s, brakeDeceleration * dt)
    ELSE IF "w" \in ek THEN
        IF s > 0 THEN Max(0, s - brakeDeceleration * dt)
        ELSE s - TruncDiv(gearAccel * dt, 1000)
    ELSE IF "s" \in ek THEN
        IF s < 0 THEN Min(0, s + brakeDeceleration * dt)
        ELSE s + TruncDiv(gearAccel * dt, 1000)
    ELSE BrakeTowardZero(s, deceleration * dt)

ClampSpeedSymmetric(s) == Max(-maxSpeed, Min(maxSpeed, s))

\* A clamp with the fast direction on the positive side.
ClampSpeedReverseFast(s) == Max(-ReverseLimit, Min(maxSpeed, s))

\* speed = Math.max(-maxSpeed, Math.min(maxSpeed * 0.3, speed))
ClampSpeed(s) == Max(-maxSpeed, Min(ReverseLimit, s))

\* A gearbox without hysteresis: every gear is decided by its upshift
\* threshold.
GearHoldsUpshiftOnly(g, gear, absSpeed) == absSpeed >= gearSpeeds[g + 1]

\* The loop body of updateGear: whether gear g qualifies at absSpeed, by the
\* downshift threshold when already in g or higher, else the upshift one.
GearHolds(g, gear, absSpeed) ==
    IF gear >= g THEN absSpeed >= gearDownSpeeds[g + 1]
    ELSE absSpeed >= gearSpeeds[g + 1]

\* A gearbox that never selects reverse: the forward search runs for either
\* sign of the speed.
updateGearForwardOnly(s, gear) ==
    IF Abs(s) > 500 THEN
        LET held == { g \in 1..5 : GearHolds(g, gear, Abs(s)) }
        IN  IF held = {} THEN 1
            ELSE CHOOSE g \in held : \A h \in held : h <= g
    ELSE 0

\* currentGear after updateGear() at speed s, coming from gear.
updateGear(s, gear) ==
    IF s > 500 THEN -1
    ELSE IF s < -500 THEN
        LET held == { g \in 1..5 : GearHolds(g, gear, Abs(s)) }
        IN  IF held = {} THEN 1
            ELSE CHOOSE g \in held : \A h \in held : h <= g
    ELSE 0

\* Miles per hour (milli) to metres per second (mm/s): * 0.44704.
MphToMps(s) == TruncDiv(s * 2794, 6250)

Pose(x, z, r) == [x |-> x, z |-> z, rot |-> r]

\* The pose the steering step proposes: heading plus deltaRotation, the
\* position swung about the blended rear-axle pivot.
TurnedPose(s, deltaRotation) ==
    LET pivotBlend == Min(1000, Abs(s) \div 15)
        effectivePivotOffset == (rearAxleOffset * pivotBlend) \div 1000
        pivotX == position.x + TruncDiv(Sin(rotation) * effectivePivotOffset, 1000)
        pivotZ == position.z + TruncDiv(Cos(rotation) * effectivePivotOffset, 1000)
        newRot == rotation + deltaRotation
    IN  IF deltaRotation = 0 THEN Pose(position.x, position.z, rotation)
        ELSE Pose(pivotX - TruncDiv(Sin(newRot) * effectivePivotOffset, 1000),
                  pivotZ - TruncDiv(Cos(newRot) * effectivePivotOffset, 1000),
                  newRot)

RevertHeadingOnly(prev, turned) == Pose(turned.x, turned.z, prev.rot)

\* The pose kept when the rotated pose collides: rotation and position are
\* both put back.
RevertedPose(prev, turned) == Pose(prev.x, prev.z, prev.rot)

\* Signed turn rate (mrad/s) for the smoothed input ti at speed s.
SteeringRate(s, ti, canDrift) ==
    LET turnFactor == IF s < 0 THEN -1 ELSE 1
        speedTurnScale == Min(1000, Abs(s) \div 20)
        effectiveTurnSpeed == (turnSpeed * speedTurnScale) \div 1000
        inputScale == Min(1000, Abs(ti))
        driftTurnBoost == IF canDrift THEN 13 ELSE 10
        rate == (effectiveTurnSpeed * driftTurnBoost * inputScale) \div 10000
    IN  IF ti < -10 THEN -turnFactor * rate
        ELSE IF ti > 10 THEN turnFactor * rate
        ELSE 0

DriftBuildUp(d, ti, dt) ==
    IF ti < -10 THEN Max(-150, d - (8 * dt) \div 10)
    ELSE IF ti > 10 THEN Min(150, d + (8 * dt) \div 10)
    ELSE d

DriftDecay(d) ==
    LET e == TruncDiv(d * 9, 10)
    IN  IF Abs(e) < 10 THEN 0 ELSE e

\* updateDriving is modelled in four stages, each a record of what the
\* stage computed: the speed update, the steering, the rotation veto and
\* the translation.

\* Auto-brake timer, input branch, clamp, settle.
SpeedStage(dt, ek) ==
    LET timer == IF autoBrakeTimer > 0 THEN Max(0, autoBrakeTimer - dt)
                 ELSE autoBrakeTimer
        gearAccel == gearAcceleration[Max(0, currentGear) + 1]
        clamped == ClampSpeed(SpeedAfterInput(speed, ek, timer > 0, gearAccel, dt))
    IN  [ dt |-> dt,
          ek |-> ek,
          timer |-> timer,
          autoBraking |-> timer > 0,
          speed |-> IF timer = 0 /\ Abs(clamped) < 200 THEN 0 ELSE clamped ]

SteerResult(a, ti, drifting, rate) ==
    [ turnInput |-> ti,
      isDrifting |-> drifting,
      rate |-> rate,
      drift |-> IF drifting THEN DriftBuildUp(driftAngle, ti, a.dt) ELSE driftAngle,
      turned |-> TurnedPose(a.speed, TruncDiv(rate * a.dt, 1000)) ]

\* Smoothed turn input, drift condition, turn rate, the rotated pose.
SteerStage(a) ==
    LET rawTurnInput == (IF "a" \in a.ek THEN 1 ELSE 0) + (IF "d" \in a.ek THEN -1 ELSE 0)
        turnLerp == Min(1000, a.dt * 12)
        ti == turnInput + TruncDiv((rawTurnInput * 1000 - turnInput) * turnLerp, 1000)
        isBraking == "space" \in a.ek \/ "s" \in a.ek \/ a.autoBraking
        moving == Abs(a.speed) > 100
        canDrift == isBraking /\ rawTurnInput # 0 /\ Abs(a.speed) > ReverseLimit
    IN  SteerResult(a, ti, moving /\ canDrift,
                    IF moving THEN SteeringRate(a.speed, ti, canDrift) ELSE 0)

VetoResult(b, prev, attempted, blocked, cache) ==
    [ prev |-> prev,
      rotAttempted |-> attempted,
      rotBlocked |-> blocked,
      rotWouldHit |-> attempted /\
                      OverlapsStaticCollider(b.turned.x, b.turned.z, b.turned.rot),
      cache |-> cache,
      kept |-> IF blocked THEN RevertedPose(prev, b.turned) ELSE b.turned,
      turnRate |-> IF blocked THEN 0 ELSE b.rate,
      driftAngle |-> IF b.isDrifting THEN (IF blocked THEN 0 ELSE b.drift)
                     ELSE DriftDecay(IF blocked THEN 0 ELSE b.drift) ]

VetoChecked(b, prev, attempted, cache) ==
    VetoResult(b, prev, attempted, attempted /\ cache.result, cache)

\* if (this.rotation !== prevRotation && checkMeshCollision(x, z, rotation))
\* revert; then the drift decay.
RotationVeto(b) ==
    VetoChecked(b, Pose(position.x, position.z, rotation), b.turned.rot # rotation,
                IF b.turned.rot # rotation
                THEN checkMeshCollision(collisionCache, b.turned.x, b.turned.z, b.turned.rot)
                ELSE collisionCache)

\* A translation step that commits the integrated position even when the
\* check refuses it.
MoveResultCommitted(a, c, velX, velZ, moveX, moveZ, cache) ==
    [ position |-> [x |-> c.kept.x + moveX, z |-> c.kept.z + moveZ],
      speed |-> IF cache.result THEN TruncDiv(a.speed, 2) ELSE a.speed,
      truckWorldVel |-> [x |-> velX, z |-> velZ],
      collisionCache |-> cache,
      moveX |-> moveX,
      moveZ |-> moveZ,
      moveBlocked |-> cache.result ]

MoveResult(a, c, velX, velZ, moveX, moveZ, cache) ==
    [ position |-> IF cache.result THEN [x |-> c.kept.x, z |-> c.kept.z]
                   ELSE [x |-> c.kept.x + moveX, z |-> c.kept.z + moveZ],
      speed |-> IF cache.result THEN TruncDiv(a.speed, 2) ELSE a.speed,
      truckWorldVel |-> [x |-> velX, z |-> velZ],
      collisionCache |-> cache,
      moveX |-> moveX,
      moveZ |-> moveZ,
      moveBlocked |-> cache.result ]

MoveChecked(a, c, velX, velZ, moveX, moveZ) ==
    MoveResult(a, c, velX, velZ, moveX, moveZ,
               checkMeshCollision(c.cache, c.kept.x + moveX, c.kept.z + moveZ, c.kept.rot))

MoveAlong(a, c, velX, velZ) ==
    MoveChecked(a, c, velX, velZ, TruncDiv(velX * a.dt, 1000), TruncDiv(velZ * a.dt, 1000))

\* The translation along rotation + driftAngle, committed unless it collides.
MoveStage(a, c) ==
    MoveAlong(a, c,
              TruncDiv(Sin(c.kept.rot + c.driftAngle) * MphToMps(a.speed), 1000),
              TruncDiv(Cos(c.kept.rot + c.driftAngle) * MphToMps(a.speed), 1000))

DriveRecord(a, b, c, m) ==
    [ dt |-> a.dt,
      autoBrakeTimer |-> a.timer,
      speed |-> m.speed,
      shiftSpeed |-> a.speed,
      currentGear |-> updateGear(a.speed, currentGear),
      turnInput |-> b.turnInput,
      turnRate |-> c.turnRate,
      driftAngle |-> c.driftAngle,
      isDrifting |-> b.isDrifting,
      rotation |-> c.kept.rot,
      position |-> m.position,
      truckWorldVel |-> m.truckWorldVel,
      collisionCache |-> m.collisionCache,
      moveX |-> m.moveX,
      moveZ |-> m.moveZ,
      prev |-> c.prev,
      turned |-> b.turned,
      rotAttempted |-> c.rotAttempted,
      rotBlocked |-> c.rotBlocked,
      rotWouldHit |-> c.rotWouldHit,
      moveBlocked |-> m.moveBlocked ]

DriveMoved(a, b, c) == DriveRecord(a, b, c, MoveStage(a, c))

DriveSteered(a, b) == DriveMoved(a, b, RotationVeto(b))

DriveFromSpeed(a) == DriveSteered(a, SteerStage(a))

\* Everything updateDriving(deltaTime, {inputEnabled}) computes up to and
\* including the translation step: the new field values and what happened
\* on the way.
DriveOutcome(deltaTime, inputEnabled) ==
    DriveFromSpeed(SpeedStage(Min(deltaTime, MaxDriveDt),
                              IF inputEnabled THEN keys ELSE {}))

\* Bed bodies that are never moved from where they were created.
BedBodiesLeftAtOrigin(x, z, r) == Pose(0, 0, 0)

\* applyTransform -> syncPhysicsBodies: the target transform handed to the
\* bed bodies (floor and walls) for the root at this pose.
syncPhysicsBodies(x, z, r) == Pose(x, z, r)

\* ------------------------------------------------------------------------
\* Cargo items
\* ------------------------------------------------------------------------

Vec(x, y, z) == [x |-> x, y |-> y, z |-> z]

ZeroVec == Vec(0, 0, 0)

\* LevelManager.itemTemplates entries used by levels 1 and 2.
LoveseatTemplate == [type |-> "couch", size |-> Vec(1700, 880, 950)]

DiningTableTemplate == [type |-> "table", size |-> Vec(3950, 900, 1650)]

ChairTemplate == [type |-> "chair", size |-> Vec(500, 900, 500)]

ItemDef(id, template) == [id |-> id, type |-> template.type, size |-> template.size]

\* LevelManager.generateLevel for the two hand-made first levels.
generateLevel(levelNumber) ==
    IF levelNumber = 1 THEN { ItemDef("item_1_0", LoveseatTemplate) }
    ELSE { ItemDef("item_2_0", DiningTableTemplate),
           ItemDef("item_2_1", ChairTemplate),
           ItemDef("item_2_2", ChairTemplate) }

\* No measured model size (modelSizes[type] unset).
NoModelSize == Vec(0, 0, 0)

\* ItemManager.getItemBoxSize: a table with a measured model is scaled to fit
\* its template; everything else takes the template size.
getItemBoxSize(itemDef, modelSize) ==
    IF itemDef.type = "table" /\ modelSize # NoModelSize THEN
        LET scale == Min((itemDef.size.x * 1000) \div modelSize.x,
                         Min((itemDef.size.y * 1000) \div modelSize.y,
                             (itemDef.size.z * 1000) \div modelSize.z))
        IN  Vec((modelSize.x * scale) \div 1000,
                (modelSize.y * scale) \div 1000,
                (modelSize.z * scale) \div 1000)
    ELSE itemDef.size

\* mm/s
MAX_REL_LINEAR_VELOCITY == 8000

\* mrad/s
MAX_ANGULAR_VELOCITY == 3000

\* mm/s
MAX_VERTICAL_VELOCITY == 4000

\* teleportItemBody keeps the body kinematic for 150 ms.
TeleportWindowMs == 150

\* placeItem: lockLateralUntil = performance.now() + 700
LateralLockMs == 700

\* placeItem lifts the mesh 0.05 above its resting height.
PlacementLift == 50

\* The placed item record (ItemManager.placeItem) with its mesh and body:
\* pos is mesh.position, vel and angSpeed the body's linear velocity and
\* angular speed, signals the number of fell-out callbacks raised for it.
\* placeItem builds the PhysicsAggregate itself (hasBody) and sets neither
\* createPhysicsAt nor becomeDynamicAt.
PlacedItem(itemDef, boxSize, pos, nowMs) ==
    [ id |-> itemDef.id,
      size |-> boxSize,
      pos |-> pos,
      vel |-> ZeroVec,
      angSpeed |-> 0,
      hasBody |-> TRUE,
      createPhysicsAt |-> 0,
      becomeDynamicAt |-> 0,
      motionType |-> "DYNAMIC",
      isFallen |-> FALSE,
      restoreMotionAt |-> 0,
      restoreMotionType |-> Null,
      lockLateralUntil |-> nowMs + LateralLockMs,
      localX |-> 0,
      localZ |-> 0,
      localY |-> 0,
      signals |-> 0 ]

\* Truck.addLoadedItem: the first local offset, taken with cos/sin(rotation).
addLoadedItem(item) ==
    LET dx == item.pos.x - position.x
        dz == item.pos.z - position.z
    IN  [item EXCEPT
            !.localX = TruncDiv(dx * Cos(rotation) + dz * Sin(rotation), 1000),
            !.localZ = TruncDiv(dz * Cos(rotation) - dx * Sin(rotation), 1000),
            !.localY = item.pos.y]

restoreItemMotionType(item, nowMs) ==
    IF ~item.hasBody \/ item.restoreMotionAt = 0 \/ nowMs < item.restoreMotionAt THEN item
    ELSE [item EXCEPT
            !.vel = ZeroVec,
            !.angSpeed = 0,
            !.motionType = IF item.restoreMotionType = Null THEN "DYNAMIC"
                           ELSE item.restoreMotionType,
            !.restoreMotionAt = 0,
            !.restoreMotionType = Null]

teleportItemBody(item, x, z, nowMs) ==
    IF ~item.hasBody THEN [item EXCEPT !.pos = Vec(x, item.pos.y, z)]
    ELSE
    [item EXCEPT
        !.restoreMotionType = item.motionType,
        !.restoreMotionAt = nowMs + TeleportWindowMs,
        !.motionType = "KINEMATIC",
        !.vel = ZeroVec,
        !.angSpeed = 0,
        !.pos = Vec(x, item.pos.y, z)]

\* localX = dx * cos + dz * sin;  localZ = -dx * sin + dz * cos
ToLocalX(dx, dz, c, s) == TruncDiv(dx * c + dz * s, 1000)

ToLocalZ(dx, dz, c, s) == TruncDiv(dz * c - dx * s, 1000)

\* worldX = lx * cos - lz * sin;  worldZ = lx * sin + lz * cos
ToWorldX(lx, lz, c, s) == TruncDiv(lx * c - lz * s, 1000)

ToWorldZ(lx, lz, c, s) == TruncDiv(lx * s + lz * c, 1000)

\* The horizontal velocity pulled back to MAX_REL_LINEAR_VELOCITY from the
\* truck's velocity tv (x and z only).
CapRelativeXZ(vel, tv) ==
    LET relX == vel.x - tv.x
        relZ == vel.z - tv.z
        relSpeed == Hypot(relX, relZ)
    IN  IF relSpeed > MAX_REL_LINEAR_VELOCITY
        THEN Vec(tv.x + TruncDiv(relX * MAX_REL_LINEAR_VELOCITY, relSpeed),
                 vel.y,
                 tv.z + TruncDiv(relZ * MAX_REL_LINEAR_VELOCITY, relSpeed))
        ELSE vel

ClampVertical(vel) ==
    IF Abs(vel.y) > MAX_VERTICAL_VELOCITY
    THEN [vel EXCEPT !.y = Sign(vel.y) * MAX_VERTICAL_VELOCITY]
    ELSE vel

CapAngular(w) == IF w > MAX_ANGULAR_VELOCITY THEN MAX_ANGULAR_VELOCITY ELSE w

CapVerticalOnly(vel, tv) == ClampVertical(vel)

\* The linear velocity both passes leave a body with: the horizontal part
\* within MAX_REL_LINEAR_VELOCITY of the truck's, the vertical part within
\* MAX_VERTICAL_VELOCITY.
CapLinear(vel, tv) == ClampVertical(CapRelativeXZ(vel, tv))

\* ------------------------------------------------------------------------
\* Pre-step pass: Truck.updateLoadedItems, one item
\* ------------------------------------------------------------------------

PreStepFallenFlagRecomputed(item, out) == out

\* if (!item.isFallen) { if (out) item.isFallen = true; }
PreStepFallenFlag(item, out) ==
    IF ~item.isFallen /\ out THEN TRUE ELSE item.isFallen

StoreLocal(item, localX, localZ) ==
    [item EXCEPT !.localX = localX, !.localZ = localZ, !.localY = item.pos.y]

\* Both passes: the linear and the angular ceilings, on a tracked body.
CapVelocities(item, tv) ==
    IF item.isFallen THEN item
    ELSE [item EXCEPT !.vel = CapLinear(item.vel, tv),
                      !.angSpeed = CapAngular(item.angSpeed)]

\* The lateral lock of a freshly placed item while the truck stands.
PreStepLock(item, nowMs, isTruckMoving) ==
    IF item.lockLateralUntil # 0 /\ nowMs < item.lockLateralUntil /\ ~isTruckMoving
    THEN [item EXCEPT !.vel = Vec(0, Min(item.vel.y, 0), 0), !.angSpeed = 0]
    ELSE IF item.lockLateralUntil # 0
    THEN [item EXCEPT !.lockLateralUntil = 0]
    ELSE item

\* The hard clamp to the bed interior. The teleport zeroes the velocity, so
\* the wall-ward component the code removes afterwards is already zero.
PreStepClamp(item, localX, localZ, nowMs, px, pz, c, s) ==
    LET maxLocalX == cargoWidth \div 2 - item.size.x \div 2 - 50
        minLocalZ == -(cargoLength \div 2) + item.size.z \div 2 + 50
        clampedLocalX == IF localX > maxLocalX THEN maxLocalX
                         ELSE IF localX < -maxLocalX THEN -maxLocalX
                         ELSE localX
        clampedLocalZ == IF localZ < minLocalZ THEN minLocalZ ELSE localZ
        needsClamp == localX < -maxLocalX \/ localX > maxLocalX \/ localZ < minLocalZ
    IN  IF needsClamp /\ ~item.isFallen
        THEN teleportItemBody(item,
                              px + ToWorldX(clampedLocalX, clampedLocalZ, c, s),
                              pz + ToWorldZ(clampedLocalX, clampedLocalZ, c, s),
                              nowMs)
        ELSE item

PreStepFallen(item, localX, localZ) ==
    [item EXCEPT !.isFallen =
        PreStepFallenFlag(item,
            \/ item.pos.y < floorTopY - 500
            \/ Abs(localX) > cargoWidth \div 2 + 1000 + item.size.x \div 2
            \/ localZ > cargoLength \div 2 + 1000 + item.size.z \div 2)]

PreStepLocated(item, localX, localZ, nowMs, tv, px, pz, c, s, isTruckMoving) ==
    PreStepFallen(
        CapVelocities(
            PreStepClamp(StoreLocal(PreStepLock(item, nowMs, isTruckMoving), localX, localZ),
                         localX, localZ, nowMs, px, pz, c, s),
            tv),
        localX, localZ)

PreStepRestored(item, nowMs, tv, px, pz, c, s, isTruckMoving) ==
    PreStepLocated(item,
                   ToLocalX(item.pos.x - px, item.pos.z - pz, c, s),
                   ToLocalZ(item.pos.x - px, item.pos.z - pz, c, s),
                   nowMs, tv, px, pz, c, s, isTruckMoving)

\* The deferred body of a placed item: created kinematic once
\* createPhysicsAt is due, made dynamic once becomeDynamicAt is due.
PreStepBody(item, nowMs) ==
    IF ~item.hasBody /\ item.createPhysicsAt # 0 /\ nowMs >= item.createPhysicsAt
    THEN [item EXCEPT !.hasBody = TRUE, !.motionType = "KINEMATIC",
                      !.vel = ZeroVec, !.angSpeed = 0, !.createPhysicsAt = 0,
                      !.becomeDynamicAt = nowMs + 100,
                      !.lockLateralUntil = nowMs + 300]
    ELSE IF item.hasBody /\ item.becomeDynamicAt # 0 /\ nowMs >= item.becomeDynamicAt
    THEN [item EXCEPT !.vel = ZeroVec, !.angSpeed = 0, !.motionType = "DYNAMIC",
                      !.becomeDynamicAt = 0]
    ELSE item

\* The pass is over for an item whose body was just created; an item still
\* settling is carried at its stored local offset; the others go on.
PreStepSettled(item, created, nowMs, tv, px, pz, c, s, isTruckMoving) ==
    IF created THEN item
    ELSE IF item.createPhysicsAt > 0 \/ item.becomeDynamicAt > 0
    THEN [item EXCEPT !.pos = Vec(px + ToWorldX(item.localX, item.localZ, c, s),
                                  item.pos.y,
                                  pz + ToWorldZ(item.localX, item.localZ, c, s))]
    ELSE PreStepRestored(item, nowMs, tv, px, pz, c, s, isTruckMoving)

\* The item after the loop body of updateLoadedItems, with the truck at
\* (px, pz) heading rot at speed spd and moving at tv; the local frame is
\* taken with cos and sin of rot.
updateLoadedItem(item, nowMs, tv, px, pz, rot, spd) ==
    PreStepSettled(PreStepBody(restoreItemMotionType(item, nowMs), nowMs),
                   ~item.hasBody /\ item.createPhysicsAt # 0
                       /\ nowMs >= item.createPhysicsAt,
                   nowMs, tv, px, pz, Cos(rot), Sin(rot), Abs(spd) > 500)

\* ------------------------------------------------------------------------
\* Post-step pass: Truck.enforceItemBounds, one item
\* ------------------------------------------------------------------------

safeMargin == 100

EnforceFrameAngleUnnegated(rot) == rot

\* cos = Math.cos(-this.rotation), sin = Math.sin(-this.rotation)
EnforceFrameAngle(rot) == -rot

\* The wall checks: an edge past the left, right or front wall plane moves
\* the item just inside it by teleport (the right wall has the last word).
EnforceWalls(item, localX, localZ, nowMs, px, pz, c, s) ==
    LET halfX == item.size.x \div 2
        halfZ == item.size.z \div 2
        wallInnerX == cargoWidth \div 2
        wallInnerFrontZ == -(cargoLength \div 2)
        leftOut == localX - halfX < -wallInnerX
        rightOut == localX + halfX > wallInnerX
        frontOut == localZ - halfZ < wallInnerFrontZ
        newLocalX == IF rightOut THEN wallInnerX - halfX - safeMargin
                     ELSE IF leftOut THEN -wallInnerX + halfX + safeMargin
                     ELSE localX
        newLocalZ == IF frontOut THEN wallInnerFrontZ + halfZ + safeMargin ELSE localZ
    IN  IF leftOut \/ rightOut \/ frontOut
        THEN teleportItemBody(item,
                              px + ToWorldX(newLocalX, newLocalZ, c, s),
                              pz + ToWorldZ(newLocalX, newLocalZ, c, s),
                              nowMs)
        ELSE item

WayOutside(item, localX, localZ) ==
    \/ Abs(localX) > cargoWidth \div 2 + 1000 + item.size.x \div 2
    \/ localZ < -(cargoLength \div 2) - 1000 - item.size.z \div 2
    \/ localZ > cargoLength \div 2 + 2000 + item.size.z \div 2
    \/ item.pos.y < floorTopY - 500

EnforceLocated(item, localX, localZ, nowMs, px, pz, c, s) ==
    [EnforceWalls(StoreLocal(item, localX, localZ), localX, localZ, nowMs, px, pz, c, s)
        EXCEPT !.isFallen = WayOutside(item, localX, localZ)]

EnforceCapped(item, nowMs, px, pz, c, s) ==
    EnforceLocated(item,
                   ToLocalX(item.pos.x - px, item.pos.z - pz, c, s),
                   ToLocalZ(item.pos.x - px, item.pos.z - pz, c, s),
                   nowMs, px, pz, c, s)

\* The item after the loop body of enforceItemBounds: fallen items and
\* items waiting for their body are skipped; the others are restored when
\* due, capped, checked against the walls in the frame of cos and sin of
\* -rot, and marked when way outside.
enforceItem(item, nowMs, tv, px, pz, rot) ==
    IF item.isFallen \/ item.createPhysicsAt > 0 THEN item
    ELSE EnforceCapped(CapVelocities(restoreItemMotionType(item, nowMs), tv),
                       nowMs, px, pz,
                       Cos(EnforceFrameAngle(rot)), Sin(EnforceFrameAngle(rot)))

\* ------------------------------------------------------------------------
\* Game layer: the fallen check of Game.update, one item
\* ------------------------------------------------------------------------

ItemIsCheckedAlways(item) == TRUE

\* if (!item.isFallen && item.mesh)
ItemIsChecked(item) == ~item.isFallen

\* The item after the forEach body; signals counts the fell-out callback
\* the frame raises for the items it newly marks.
FellOut(item, localX, localZ) ==
    \/ item.pos.y - item.size.y \div 2 < floorTopY - 300
    \/ Abs(localX) > cargoWidth \div 2 + 500
    \/ localZ < -(cargoLength \div 2) - 500
    \/ localZ > cargoLength \div 2 + 1000

CheckLocated(item, localX, localZ) ==
    IF FellOut(item, localX, localZ)
    THEN [item EXCEPT !.isFallen = TRUE, !.signals = @ + 1]
    ELSE item

checkFallen(item, px, pz, rot) ==
    IF ~ItemIsChecked(item) THEN item
    ELSE CheckLocated(item,
                      ToLocalX(item.pos.x - px, item.pos.z - pz, Cos(-rot), Sin(-rot)),
                      ToLocalZ(item.pos.x - px, item.pos.z - pz, Cos(-rot), Sin(-rot)))

\* ------------------------------------------------------------------------
\* The physics engine's step (scene.render), one body
\* ------------------------------------------------------------------------

\* What a step can make of a dynamic body on the bed: it rides along, it is
\* knocked about where it stands (over-limit velocities), it is pushed
\* through the front or the right wall, it leaves over the open rear, or it
\* ends up under the floor level.
PhysicsOutcomes ==
    {"ride", "tumble", "breachFront", "breachRight", "slideOffRear", "drop"}

\* Where (truck-local, true frame) and how fast the outcome leaves the body.
StepSpot(item, outcome, rideX, rideZ) ==
    IF outcome \in {"ride", "tumble"} THEN <<rideX, rideZ>>
    ELSE IF outcome = "breachFront"
    THEN <<0, -(cargoLength \div 2) + item.size.z \div 2 - 300>>
    ELSE IF outcome = "breachRight"
    THEN <<cargoWidth \div 2 - item.size.x \div 2 + 300, 0>>
    ELSE <<0, cargoLength \div 2 + 1200>>

StepVelocity(outcome, tv) ==
    IF outcome = "tumble" THEN Vec(tv.x + 6000, -5000, tv.z + 8000)
    ELSE IF outcome = "drop" THEN Vec(tv.x, -4000, tv.z)
    ELSE Vec(tv.x, 0, tv.z)

StepTo(item, outcome, spot, tv, px, pz, rot) ==
    [item EXCEPT
        !.pos = Vec(px + RootToWorldX(spot[1], spot[2], rot),
                    IF outcome = "drop" THEN 500 ELSE item.pos.y,
                    pz + RootToWorldZ(spot[1], spot[2], rot)),
        !.vel = StepVelocity(outcome, tv),
        !.angSpeed = IF outcome = "tumble" THEN 4000 ELSE 0]

\* A kinematic body keeps its target transform; a body that already left
\* the bed is left where it is.
stepBody(item, outcome, prev, tv, px, pz, rot) ==
    IF item.motionType # "DYNAMIC" \/ item.isFallen THEN item
    ELSE StepTo(item, outcome,
                StepSpot(item, outcome,
                         WorldToRootX(item.pos.x - prev.x, item.pos.z - prev.z, prev.rot),
                         WorldToRootZ(item.pos.x - prev.x, item.pos.z - prev.z, prev.rot)),
                tv, px, pz, rot)

\* ------------------------------------------------------------------------
\* Scene: houses, pickup house, destination walls
\* ------------------------------------------------------------------------

House(x, z, hx, hz, rot, tile) ==
    [x |-> x, z |-> z, hx |-> hx, hz |-> hz, rot |-> rot, tile |-> tile,
     disposed |-> FALSE]

\* SceneManager.setPickup: a 12 x 14 house at the pickup point.
PickupHouseAt(x, z) == House(x, z, 6000, 7000, 0, <<0, 0>>)

\* SceneManager.setDestination: the five wall boxes around the 37.5 m pad,
\* the entrance on the side away from signZ.
DestinationWallsAt(x, z) ==
    LET tileX == RoundDiv(x, groundTileSize) * groundTileSize
        tileZ == RoundDiv(z, groundTileSize) * groundTileSize
        signX == IF x >= tileX THEN 1 ELSE -1
        signZ == IF z >= tileZ THEN 1 ELSE -1
        halfWall == 18750
        halfThick == 250
        sideWallLength == 13750
        quarterTurn == PI \div 2
    IN  { House(x + signX * (halfWall - halfThick), z, halfWall, halfThick, quarterTurn, <<0, 0>>),
          House(x - signX * (halfWall - halfThick), z, halfWall, halfThick, quarterTurn, <<0, 0>>),
          House(x, z + signZ * (halfWall - halfThick), halfWall, halfThick, 0, <<0, 0>>),
          House(x + signX * (halfWall - sideWallLength \div 2),
                z - signZ * (halfWall - halfThick), sideWallLength \div 2, halfThick, 0, <<0, 0>>),
          House(x - signX * (halfWall - sideWallLength \div 2),
                z - signZ * (halfWall - halfThick), sideWallLength \div 2, halfThick, 0, <<0, 0>>) }

pickupRadius == 40000

destinationRadius == 15000

\* Game.generateDestination: 200 + level * 150 metres out, at a tile corner
\* (the direction is random; the model takes the +x one).
DestinationOf(levelNumber) == [x |-> (200 + levelNumber * 150) * 1000 + 25000, z |-> 25000]

\* ------------------------------------------------------------------------
\* Input handlers
\* ------------------------------------------------------------------------

DriveKeys == {"w", "a", "s", "d", "space"}

\* Truck.initDriving, keydown listener
KeyDown(k) ==
    /\ pc = "loop"
    /\ k \notin keys
    /\ keys' = keys \cup {k}
    /\ UNCHANGED <<truckVars, enableItemPhysics, loadedItems, frameId, sceneVars,
                   gameVars, now, pc, frames, drive, passLog, probe>>

\* Truck.initDriving, keyup listener
KeyUp(k) ==
    /\ pc = "loop"
    /\ k \in keys
    /\ keys' = keys \ {k}
    /\ UNCHANGED <<truckVars, enableItemPhysics, loadedItems, frameId, sceneVars,
                   gameVars, now, pc, frames, drive, passLog, probe>>

\* Debug key 4: debugToggles.itemPhysics flips and applyDebugToggles copies
\* it to truck.enableItemPhysics.
ToggleItemPhysics ==
    /\ pc = "loop"
    /\ enableItemPhysics' = ~enableItemPhysics
    /\ UNCHANGED <<truckVars, keys, loadedItems, frameId, sceneVars, gameVars,
                   now, pc, frames, drive, passLog, probe>>

\* Where on the bed floor the pointer puts an item (truck-local): the
\* middle, and a spot that leaves a loveseat 0.2 m through the right wall
\* (isValidPlacement checks the height only).
PlacementSpots == { <<0, 0>>, <<550, 0>> }

\* Picking a ground item up at the pickup and placing it on the bed
\* (InputSystem pointer handler, ItemManager.placeItem, Truck.addLoadedItem).
PlaceItem(itemDef, spot) ==
    /\ pc = "loop"
    /\ isAtPickup
    /\ itemDef \in groundItems
    /\ heldGroundItem \in {Null, itemDef.id}
    /\ selectedItemId = heldGroundItem
    /\ LET boxSize == getItemBoxSize(itemDef, NoModelSize)
           pos == Vec(position.x + RootToWorldX(spot[1], spot[2], rotation),
                      floorTopY + boxSize.y \div 2 + PlacementLift,
                      position.z + RootToWorldZ(spot[1], spot[2], rotation))
       IN  loadedItems' =
               Append(loadedItems, addLoadedItem(PlacedItem(itemDef, boxSize, pos, now)))
    /\ bedPose' = syncPhysicsBodies(position.x, position.z, rotation)
    /\ groundItems' = groundItems \ {itemDef}
    /\ heldGroundItem' = Null
    /\ selectedItemId' = Null
    /\ previewItemDef' = Null
    /\ UNCHANGED <<position, rotation, speed, currentGear, autoBrakeTimer, turnInput,
                   turnRate, driftAngle, isDrifting, truckWorldVel, collisionCache,
                   keys, enableItemPhysics, frameId, sceneVars, isRunning, isPaused,
                   fallOutTriggered, hasArrivedAtDestination, isAtPickup, modalBlocking,
                   pickup, destination, timers, outcomes, menuVisible, now, pc, frames,
                   drive, passLog, probe>>

\* ------------------------------------------------------------------------
\* Render loop (Game.init, engine.runRenderLoop): updateDriving, Game.update,
\* scene.render, each frame in this order
\* ------------------------------------------------------------------------

\* The record of a frame in which updateDriving did not run.
IdleDrive(pose) ==
    [ ran |-> FALSE, itemPhysics |-> FALSE, prev |-> pose, prevGear |-> 0,
      shiftSpeed |-> 0, prevTurnRate |-> 0,
      prevDriftAngle |-> 0, turned |-> pose, rotAttempted |-> FALSE,
      rotBlocked |-> FALSE, rotWouldHit |-> FALSE, moveBlocked |-> FALSE,
      moveX |-> 0, moveZ |-> 0 ]

\* The fields updateDriving leaves, from its outcome d, with applyTransform
\* (the bed bodies get the new pose) and, with item physics enabled, the
\* pre-step pass over the loaded items.
CommitDrive(d, nowMs) ==
    /\ position' = d.position
    /\ rotation' = d.rotation
    /\ speed' = d.speed
    /\ currentGear' = d.currentGear
    /\ autoBrakeTimer' = d.autoBrakeTimer
    /\ turnInput' = d.turnInput
    /\ turnRate' = d.turnRate
    /\ driftAngle' = d.driftAngle
    /\ isDrifting' = d.isDrifting
    /\ truckWorldVel' = d.truckWorldVel
    /\ collisionCache' = d.collisionCache
    /\ bedPose' = syncPhysicsBodies(d.position.x, d.position.z, d.rotation)
    /\ loadedItems' =
         IF enableItemPhysics
         THEN [ i \in 1..Len(loadedItems) |->
                  updateLoadedItem(loadedItems[i], nowMs, d.truckWorldVel,
                                   d.position.x, d.position.z, d.rotation, d.speed) ]
         ELSE loadedItems
    /\ drive' = [ ran |-> TRUE,
                  itemPhysics |-> enableItemPhysics,
                  prev |-> d.prev,
                  prevGear |-> currentGear,
                  shiftSpeed |-> d.shiftSpeed,
                  prevTurnRate |-> turnRate,
                  prevDriftAngle |-> driftAngle,
                  turned |-> d.turned,
                  rotAttempted |-> d.rotAttempted,
                  rotBlocked |-> d.rotBlocked,
                  rotWouldHit |-> d.rotWouldHit,
                  moveBlocked |-> d.moveBlocked,
                  moveX |-> d.moveX,
                  moveZ |-> d.moveZ ]
    /\ passLog' = IF enableItemPhysics THEN <<"sync", "prestep">> ELSE <<"sync">>

\* if (this.isRunning) this.truck.updateDriving(Math.min(deltaTime, 0.1), ...)
RenderLoopDrive(deltaTime) ==
    /\ pc = "loop"
    /\ pc' = "update"
    /\ now' = now + deltaTime
    /\ IF isRunning
       THEN CommitDrive(DriveOutcome(Min(deltaTime, MaxLoopDelta), ~modalBlocking),
                        now + deltaTime)
       ELSE /\ UNCHANGED <<truckVars, loadedItems>>
            /\ drive' = IdleDrive(Pose(position.x, position.z, rotation))
            /\ passLog' = <<>>
    /\ UNCHANGED <<keys, enableItemPhysics, frameId, sceneVars, gameVars, frames,
                   probe>>

\* ItemManager.areAllItemsPlaced
areAllItemsPlaced == groundItems = {}

\* if (!this.isPaused) this.update(): pickup proximity, destination arrival,
\* the fallen check and the fell-out callback.
GameUpdate ==
    /\ pc = "update"
    /\ pc' = "render"
    /\ IF isRunning /\ ~isPaused
       THEN LET arrives ==
                    /\ ~hasArrivedAtDestination
                    /\ Within(destination.x - position.x, destination.z - position.z,
                              destinationRadius)
                    /\ areAllItemsPlaced
                checked == [ i \in 1..Len(loadedItems) |->
                               checkFallen(loadedItems[i], position.x, position.z, rotation) ]
                newlyFallen == { i \in 1..Len(loadedItems) : checked[i] # loadedItems[i] }
                raised == newlyFallen # {} /\ ~fallOutTriggered
            IN  /\ isAtPickup' = Within(pickup.x - position.x, pickup.z - position.z,
                                        pickupRadius)
                /\ hasArrivedAtDestination' = (hasArrivedAtDestination \/ arrives)
                /\ autoBrakeTimer' = IF arrives THEN Max(autoBrakeTimer, ArrivalBrakeMs)
                                     ELSE autoBrakeTimer
                /\ loadedItems' = checked
                /\ fallOutTriggered' = (fallOutTriggered \/ newlyFallen # {})
                /\ timers' = timers
                     \cup (IF arrives THEN {[kind |-> "completeLevel", due |-> now + 500]}
                           ELSE {})
                     \cup (IF raised THEN {[kind |-> "itemFellOutLoss", due |-> now + 800]}
                           ELSE {})
       ELSE UNCHANGED <<isAtPickup, hasArrivedAtDestination, autoBrakeTimer, loadedItems,
                        fallOutTriggered, timers>>
    /\ UNCHANGED <<position, rotation, speed, currentGear, turnInput, turnRate,
                   driftAngle, isDrifting, truckWorldVel, collisionCache, bedPose, keys,
                   enableItemPhysics, frameId, sceneVars, isRunning, isPaused,
                   modalBlocking, pickup, destination, groundItems, outcomes,
                   menuVisible, heldGroundItem, selectedItemId, previewItemDef, now,
                   frames, drive, passLog, probe>>

\* The body the step's outcome applies to: the first dynamic one still
\* tracked as on the bed (0 when there is none); the others ride.
DisturbedItem ==
    LET live == { i \in 1..Len(loadedItems) :
                    loadedItems[i].motionType = "DYNAMIC" /\ ~loadedItems[i].isFallen }
    IN  IF live = {} THEN 0 ELSE CHOOSE i \in live : \A j \in live : i <= j

\* this.scene.render(): the physics engine steps, then the
\* onAfterPhysicsObservable observer runs truck.enforceItemBounds().
SceneRender(outcome) ==
    /\ pc = "render"
    /\ pc' = "loop"
    /\ LET stepped == [ i \in 1..Len(loadedItems) |->
                          stepBody(loadedItems[i],
                                   IF i = DisturbedItem THEN outcome ELSE "ride",
                                   drive.prev, truckWorldVel,
                                   position.x, position.z, rotation) ]
       IN  loadedItems' = [ i \in 1..Len(loadedItems) |->
                              enforceItem(stepped[i], now, truckWorldVel,
                                          position.x, position.z, rotation) ]
    /\ passLog' = passLog \o <<"step", "poststep">>
    /\ frameId' = frameId + 1
    /\ frames' = frames + 1
    /\ UNCHANGED <<truckVars, keys, enableItemPhysics, sceneVars, gameVars, now, drive,
                   probe>>

\* ------------------------------------------------------------------------
\* Initial states: rounds in progress, and the title screen
\* ------------------------------------------------------------------------

MaxDriveFrames == 1

MaxCargoFrames == 3

\* engine.getDeltaTime(), ms: a 60 Hz frame, a slow frame, a stalled frame.
DriveFrameTimes == {16, 50}

CargoFrameTimes == {50, 200}

\* A generated house (createHousesForTile): 8 x 10, in the +x +z quadrant of
\* tile (0, 0).
NeighbourHouse == House(18250, 18250, 4000, 5000, 0, <<0, 0>>)

PickupPoint == [x |-> 125000, z |-> 25000]

\* The truck beside the house, nose to the house, on the open road, and
\* driving into the destination pad of level 1.
BesideHouse == Pose(12900, 18000, 0)

FacingHouse == Pose(18250, 8940, PI)

OpenRoad == Pose(0, 0, 0)

EnteringDestination == Pose(DestinationOf(1).x, DestinationOf(1).z + 15200, 0)

InsideDestination == Pose(DestinationOf(1).x, DestinationOf(1).z + 14800, 0)

Motion(s, d) ==
    [speed |-> s, driftAngle |-> d, autoBrakeTimer |-> 0,
     currentGear |-> updateGear(s, 0)]

\* The motion in the frames after checkDestinationArrival armed the brake.
Braking(s, t) ==
    [speed |-> s, driftAngle |-> 0, autoBrakeTimer |-> t,
     currentGear |-> updateGear(s, 0)]

\* The motion m of a truck that came to its speed through gear g.
InGear(m, g) == [m EXCEPT !.currentGear = g]

DriveMotions ==
    { Motion(0, 0), Motion(-109900, 0), Motion(-20000, 0), Motion(32900, 0),
      Motion(-40000, 100) }

\* An item at rest on the bed at the truck-local spot, its lateral lock over.
RestingItem(itemDef, pose, spot) ==
    LET boxSize == getItemBoxSize(itemDef, NoModelSize)
        y == floorTopY + boxSize.y \div 2
        item == PlacedItem(itemDef, boxSize,
                           Vec(pose.x + RootToWorldX(spot[1], spot[2], pose.rot), y,
                               pose.z + RootToWorldZ(spot[1], spot[2], pose.rot)),
                           0)
    IN  [item EXCEPT !.lockLateralUntil = 0, !.localX = spot[1], !.localZ = spot[2],
                     !.localY = y]

\* A round of the given level in progress: the truck at pose with motion m
\* and the held keys ks, the items of loaded on the bed, the rest of the
\* level's items on the ground at the pickup, and the colliders of scn in
\* the scene.
RoundWith(levelNumber, pose, m, ks, loaded, scn) ==
    /\ position = [x |-> pose.x, z |-> pose.z]
    /\ rotation = pose.rot
    /\ speed = m.speed
    /\ currentGear = m.currentGear
    /\ autoBrakeTimer = m.autoBrakeTimer
    /\ turnInput = 0
    /\ turnRate = 0
    /\ driftAngle = m.driftAngle
    /\ isDrifting = FALSE
    /\ keys = ks
    /\ truckWorldVel = [x |-> 0, z |-> 0]
    /\ enableItemPhysics = TRUE
    /\ collisionCache = NoCache
    /\ bedPose = syncPhysicsBodies(pose.x, pose.z, pose.rot)
    /\ loadedItems = loaded
    /\ frameId = 0
    /\ housesByTile = scn.housesByTile
    /\ pickupHouse = scn.pickupHouse
    /\ destinationWalls = scn.destinationWalls
    /\ isRunning = TRUE
    /\ isPaused = FALSE
    /\ fallOutTriggered = FALSE
    /\ hasArrivedAtDestination = (m.autoBrakeTimer > 0)
    /\ isAtPickup = Within(PickupPoint.x - pose.x, PickupPoint.z - pose.z, pickupRadius)
    /\ modalBlocking = FALSE
    /\ pickup = PickupPoint
    /\ destination = DestinationOf(levelNumber)
    /\ groundItems = { d \in generateLevel(levelNumber) :
                         \A i \in 1..Len(loaded) : loaded[i].id # d.id }
    /\ timers = IF m.autoBrakeTimer > 0
                THEN {[kind |-> "completeLevel", due |-> 10000 + 500]}
                ELSE {}
    /\ outcomes = {}
    /\ menuVisible = FALSE
    /\ heldGroundItem = Null
    /\ selectedItemId = Null
    /\ previewItemDef = Null
    /\ now = 10000
    /\ pc = "loop"
    /\ frames = 0
    /\ drive = IdleDrive(pose)
    /\ passLog = <<>>
    /\ probe = NoProbe

\* The colliders after setPickup and setDestination, with the houses of
\* tile (0, 0) created.
SceneOf(levelNumber) ==
    [housesByTile |-> {NeighbourHouse},
     pickupHouse |-> {PickupHouseAt(PickupPoint.x, PickupPoint.z)},
     destinationWalls |-> DestinationWallsAt(DestinationOf(levelNumber).x,
                                             DestinationOf(levelNumber).z)]

InRound(levelNumber, pose, m, ks, loaded) ==
    RoundWith(levelNumber, pose, m, ks, loaded, SceneOf(levelNumber))

\* The idle callback of scheduleHouseWork takes the pending tile (0, 0),
\* which has no live houses, and createHousesForTile replaces its houses.
HouseWork ==
    /\ pc = "loop"
    /\ ~\E h \in housesByTile : h.tile = NeighbourHouse.tile /\ ~h.disposed
    /\ housesByTile' = { h \in housesByTile : h.tile # NeighbourHouse.tile }
                          \cup {NeighbourHouse}
    /\ UNCHANGED <<truckVars, keys, enableItemPhysics, loadedItems, frameId, pickupHouse,
                   destinationWalls, gameVars, now, pc, frames, drive, passLog, probe>>

\* The state after Game.init(): the title screen, no round started.
TitleScreen ==
    /\ position = [x |-> 0, z |-> 0]
    /\ rotation = 0
    /\ speed = 0
    /\ currentGear = 0
    /\ autoBrakeTimer = 0
    /\ turnInput = 0
    /\ turnRate = 0
    /\ driftAngle = 0
    /\ isDrifting = FALSE
    /\ keys = {}
    /\ truckWorldVel = [x |-> 0, z |-> 0]
    /\ enableItemPhysics = TRUE
    /\ collisionCache = NoCache
    /\ bedPose = syncPhysicsBodies(0, 0, 0)
    /\ loadedItems = <<>>
    /\ frameId = 0
    /\ housesByTile = {NeighbourHouse}
    /\ pickupHouse = {}
    /\ destinationWalls = {}
    /\ isRunning = FALSE
    /\ isPaused = FALSE
    /\ fallOutTriggered = FALSE
    /\ hasArrivedAtDestination = FALSE
    /\ isAtPickup = TRUE
    /\ modalBlocking = FALSE
    /\ pickup = [x |-> 0, z |-> 0]
    /\ destination = [x |-> 0, z |-> 0]
    /\ groundItems = {}
    /\ timers = {}
    /\ outcomes = {}
    /\ menuVisible = FALSE
    /\ heldGroundItem = Null
    /\ selectedItemId = Null
    /\ previewItemDef = Null
    /\ now = 10000
    /\ pc = "loop"
    /\ frames = 0
    /\ drive = IdleDrive(Pose(0, 0, 0))
    /\ passLog = <<>>
    /\ probe = NoProbe

Loveseat == ItemDef("item_1_0", LoveseatTemplate)

DiningTable == ItemDef("item_2_0", DiningTableTemplate)

\* Driving: around the house and on the road before loading, and into the
\* destination with the level's item on the bed.
InitDrive ==
    \/ \E pose \in {BesideHouse, FacingHouse, OpenRoad} : \E m \in DriveMotions :
          InRound(1, pose, m, {}, <<>>)
    \/ InRound(1, EnteringDestination, Motion(-20000, 0), {},
               <<RestingItem(Loveseat, EnteringDestination, <<0, 0>>)>>)
    \/ InRound(1, InsideDestination, Braking(-20000, ArrivalBrakeMs), {},
               <<RestingItem(Loveseat, InsideDestination, <<0, 0>>)>>)

AtPickup == Pose(100000, 10000, 0)

LeavingPickup(r) == Pose(60000, 0, r)

\* Cargo: at the pickup about to load, backing away under braking with the
\* load on the bed (straight and at 45 degrees), and the title screen.
InitCargo ==
    \/ \E r \in {0, 785} :
          InRound(1, Pose(AtPickup.x, AtPickup.z, r), Motion(0, 0), {}, <<>>)
    \/ \E r \in {0, 785} :
          InRound(1, LeavingPickup(r), Motion(9000, 0), {"space"},
                  <<RestingItem(Loveseat, LeavingPickup(r), <<0, 0>>)>>)
    \/ InRound(2, LeavingPickup(0), Motion(9000, 0), {"space"},
               <<RestingItem(DiningTable, LeavingPickup(0), <<0, 0>>)>>)
    \/ TitleScreen

\* Gearbox: on the open road at rest, reversing, and at speeds on either
\* side of every shift threshold, in the gear the truck came there with.
MaxGearFrames == 3

GearFrameTimes == {17, 50}

GearKeys == {"w", "space"}

GearMotions ==
    { Motion(0, 0), Motion(600, 0),
      InGear(Motion(-24800, 0), 1),
      InGear(Motion(-49800, 0), 1), InGear(Motion(-47000, 0), 2),
      InGear(Motion(-74800, 0), 2), InGear(Motion(-72000, 0), 3),
      InGear(Motion(-94900, 0), 3), InGear(Motion(-92000, 0), 4),
      InGear(Motion(-109900, 0), 4), InGear(Motion(-107000, 0), 5) }

\* The frames after applyAutoBrake: rolling on the destination pad, the
\* brake timer running, with forward, reverse or nothing held.
BrakingMotions == { Braking(-3100, 100), Braking(-1500, 30), Braking(2000, 100) }

InitGear ==
    \/ \E m \in GearMotions : InRound(1, OpenRoad, m, {}, <<>>)
    \/ InRound(1, OpenRoad, Motion(0, 0), {"s"}, <<>>)
    \/ \E m \in BrakingMotions : \E ks \in {{"w"}, {"s"}, {}} :
          InRound(1, InsideDestination, m, ks,
                  <<RestingItem(Loveseat, InsideDestination, <<0, 0>>)>>)

\* The perimeter check: inside the destination pad of level 1 at 45 degrees,
\* nose against the far wall (the outline points reach 0.14 m further than
\* the cab does), and clear of it.
ProbeMoves == { <<dx, dz>> : dx \in {-500, -200, 0, 200, 500},
                             dz \in {-500, -200, 0, 200, 500} }

InitWalls ==
    \E x \in {DestinationOf(1).x, DestinationOf(1).x - 3000} :
        \E z \in {10600, 10650, 10700, 11500} :
            InRound(1, Pose(x, z, 785), Motion(0, 0), {},
                    <<RestingItem(Loveseat, Pose(x, z, 785), <<0, 0>>)>>)

\* Colliders that are live, disposed but still referenced, or missing: the
\* truck driving nose first at the house of tile (0, 0), at the pickup house
\* and at the far wall of the destination.
ColliderStates(cs) == { cs, { [c EXCEPT !.disposed = TRUE] : c \in cs }, {} }

AbsentPoses ==
    { FacingHouse,
      Pose(PickupPoint.x, PickupPoint.z - 11350, PI),
      Pose(DestinationOf(1).x, 11100, 0) }

InitAbsent ==
    \E hs \in ColliderStates(SceneOf(1).housesByTile) :
        \E ps \in ColliderStates(SceneOf(1).pickupHouse) :
            \E ws \in ColliderStates(SceneOf(1).destinationWalls) :
                \E pose \in AbsentPoses :
                    RoundWith(1, pose, Motion(-20000, 0), {"w"}, <<>>,
                              [housesByTile |-> hs, pickupHouse |-> ps,
                               destinationWalls |-> ws])

\* House streaming: the truck on the grass of tile (0, 0) while the tile's
\* houses are still queued, nose 1 mm and 1 m into the footprint of the
\* house to come and clear of it, with reverse or forward held.
MaxStuckFrames == 4

StuckFrameTimes == {17, 50}

StuckPoses ==
    { Pose(FacingHouse.x, FacingHouse.z + 10, PI),
      Pose(FacingHouse.x, FacingHouse.z + 1010, PI),
      Pose(FacingHouse.x, FacingHouse.z - 3000, PI) }

InitStuck ==
    \E pose \in StuckPoses : \E ks \in {{"s"}, {"w"}} :
        RoundWith(1, pose, Motion(0, 0), ks, <<>>,
                  [SceneOf(1) EXCEPT !.housesByTile = {}])

\* ------------------------------------------------------------------------
\* Round outcomes, the pause menu and carrying a ground item
\* ------------------------------------------------------------------------

\* A setTimeout callback whose delay has passed runs between two frames:
\* () => this.completeLevel() shows the results modal (UIManager.showResults);
\* () => { if (!this.isPaused) this.itemFellOutLoss(); } pauses and shows the
\* game-over modal.
TimerDue(t) ==
    /\ pc = "loop"
    /\ t \in timers
    /\ now >= t.due
    /\ timers' = timers \ {t}
    /\ IF t.kind = "completeLevel"
       THEN /\ outcomes' = outcomes \cup {"complete"}
            /\ modalBlocking' = TRUE
            /\ UNCHANGED isPaused
       ELSE IF ~isPaused
       THEN /\ outcomes' = outcomes \cup {"loss"}
            /\ isPaused' = TRUE
            /\ UNCHANGED modalBlocking
       ELSE UNCHANGED <<outcomes, modalBlocking, isPaused>>
    /\ UNCHANGED <<truckVars, keys, enableItemPhysics, loadedItems, frameId, sceneVars,
                   isRunning, fallOutTriggered, hasArrivedAtDestination, isAtPickup,
                   pickup, destination, groundItems, menuVisible, heldGroundItem,
                   selectedItemId, previewItemDef, now, pc, frames, drive, passLog,
                   probe>>

\* Game.restartLevel: resetLevel, generatePickup, generateDestination,
\* loadLevel, spawnGroundItems, resume. The random draws of the pickup and
\* of the destination are taken to repeat the places of the round; pending
\* timeouts are left as they are.
restartLevel(levelNumber) ==
    /\ position' = [x |-> 0, z |-> 0]
    /\ rotation' = 0
    /\ speed' = 0
    /\ bedPose' = syncPhysicsBodies(0, 0, 0)
    /\ loadedItems' = <<>>
    /\ fallOutTriggered' = FALSE
    /\ hasArrivedAtDestination' = FALSE
    /\ isAtPickup' = TRUE
    /\ pickup' = PickupPoint
    /\ destination' = DestinationOf(levelNumber)
    /\ pickupHouse' = SceneOf(levelNumber).pickupHouse
    /\ destinationWalls' = SceneOf(levelNumber).destinationWalls
    /\ groundItems' = generateLevel(levelNumber)
    /\ heldGroundItem' = Null
    /\ selectedItemId' = Null
    /\ previewItemDef' = Null
    /\ isPaused' = FALSE
    /\ outcomes' = {}
    /\ UNCHANGED <<currentGear, autoBrakeTimer, turnInput, turnRate, driftAngle,
                   isDrifting, truckWorldVel, collisionCache, keys, enableItemPhysics,
                   frameId, housesByTile, isRunning, timers, now, pc, frames, drive,
                   passLog, probe>>

\* The Restart button of the pause menu: hideMenu(), game.restartLevel().
MenuRestart(levelNumber) ==
    /\ pc = "loop"
    /\ menuVisible
    /\ menuVisible' = FALSE
    /\ modalBlocking' = FALSE
    /\ restartLevel(levelNumber)

\* InputSystem.handleKeyDown for Escape: with the menu shown it closes the
\* menu and resumes (handleMenuKeyDown); otherwise it drops the selection
\* and the preview if there is a selection, and opens the menu if not.
EscapeKey ==
    /\ pc = "loop"
    /\ IF menuVisible
       THEN /\ menuVisible' = FALSE
            /\ modalBlocking' = FALSE
            /\ isPaused' = FALSE
            /\ UNCHANGED <<selectedItemId, previewItemDef>>
       ELSE IF selectedItemId # Null
       THEN /\ selectedItemId' = Null
            /\ previewItemDef' = Null
            /\ UNCHANGED <<menuVisible, modalBlocking, isPaused>>
       ELSE IF isRunning
       THEN /\ menuVisible' = TRUE
            /\ modalBlocking' = TRUE
            /\ UNCHANGED <<selectedItemId, previewItemDef, isPaused>>
       ELSE UNCHANGED <<menuVisible, modalBlocking, isPaused, selectedItemId,
                        previewItemDef>>
    /\ UNCHANGED <<truckVars, keys, enableItemPhysics, loadedItems, frameId, sceneVars,
                   isRunning, fallOutTriggered, hasArrivedAtDestination, isAtPickup,
                   pickup, destination, groundItems, timers, outcomes, heldGroundItem,
                   now, pc, frames, drive, passLog, probe>>

\* Left click on a ground item at the pickup with nothing selected:
\* ItemManager.pickupGroundItem, which refuses while an item is held. The
\* mesh of the held item is disabled and cannot be clicked.
pickupGroundItem(groundItem) ==
    /\ pc = "loop"
    /\ isAtPickup
    /\ selectedItemId = Null
    /\ groundItem \in groundItems
    /\ groundItem.id # heldGroundItem
    /\ IF heldGroundItem # Null
       THEN UNCHANGED <<heldGroundItem, selectedItemId, previewItemDef>>
       ELSE /\ heldGroundItem' = groundItem.id
            /\ selectedItemId' = groundItem.id
            /\ previewItemDef' = groundItem.id
    /\ UNCHANGED <<truckVars, keys, enableItemPhysics, loadedItems, frameId, sceneVars,
                   isRunning, isPaused, fallOutTriggered, hasArrivedAtDestination,
                   isAtPickup, modalBlocking, pickup, destination, groundItems, timers,
                   outcomes, menuVisible, now, pc, frames, drive, passLog, probe>>

\* Right click with a selection or a held item: ItemManager.cancelPickup.
cancelPickup ==
    /\ pc = "loop"
    /\ <<selectedItemId, heldGroundItem>> # <<Null, Null>>
    /\ heldGroundItem' = Null
    /\ selectedItemId' = Null
    /\ previewItemDef' = Null
    /\ UNCHANGED <<truckVars, keys, enableItemPhysics, loadedItems, frameId, sceneVars,
                   isRunning, isPaused, fallOutTriggered, hasArrivedAtDestination,
                   isAtPickup, modalBlocking, pickup, destination, groundItems, timers,
                   outcomes, menuVisible, now, pc, frames, drive, passLog, probe>>

MaxRoundFrames == 4

\* Time between two frames, ms.
RoundFrameTimes == {400}

RoundOutcomes == {"ride", "slideOffRear"}

\* Rolling onto the destination pad of level 1 with the loveseat loaded.
InitRound ==
    InRound(1, InsideDestination, Motion(-3000, 0), {},
            <<RestingItem(Loveseat, InsideDestination, <<0, 0>>)>>)

\* At the pickup of level 1 or 2, every item still on the ground.
InitHold ==
    \E levelNumber \in {1, 2} :
        InRound(levelNumber, AtPickup, Motion(0, 0), {}, <<>>)

MaxCacheFrames == 3

\* The two calls updateDriving makes to checkMeshCollision in a frame: the
\* rotation check at the turned pose (made only when the rotation changed),
\* then the movement check at the moved pose. The poses the drivetrain would
\* compute are drawn from StuckPoses; probe records the answers given.
DrivingChecks(rotChecked, turned, moved) ==
    /\ pc = "loop"
    /\ isRunning
    /\ pc' = "update"
    /\ LET first == IF rotChecked
                     THEN checkMeshCollision(collisionCache, turned.x, turned.z, turned.rot)
                     ELSE collisionCache
           second == checkMeshCollision(first, moved.x, moved.z, moved.rot)
       IN  /\ collisionCache' = second
           /\ probe' = [asked |-> TRUE, rotChecked |-> rotChecked, turned |-> turned,
                        moved |-> moved, rotAnswer |-> rotChecked /\ first.result,
                        moveAnswer |-> second.result]
    /\ UNCHANGED <<position, rotation, speed, currentGear, autoBrakeTimer, turnInput,
                   turnRate, driftAngle, isDrifting, truckWorldVel, bedPose, keys,
                   enableItemPhysics, loadedItems, frameId, sceneVars, gameVars, now,
                   frames, drive, passLog>>

\* ------------------------------------------------------------------------
\* Specifications
\* ------------------------------------------------------------------------

NextDrive ==
    \/ \E k \in DriveKeys : frames < MaxDriveFrames /\ KeyDown(k)
    \/ \E k \in DriveKeys : frames < MaxDriveFrames /\ KeyUp(k)
    \/ \E deltaTime \in DriveFrameTimes : frames < MaxDriveFrames /\ RenderLoopDrive(deltaTime)
    \/ GameUpdate
    \/ SceneRender("ride")

SpecDrive == InitDrive /\ [][NextDrive]_vars

SpecAbsent == InitAbsent /\ [][NextDrive]_vars

NextCache ==
    \/ \E rotChecked \in BOOLEAN : \E turned \in StuckPoses : \E moved \in StuckPoses :
          frames < MaxCacheFrames /\ DrivingChecks(rotChecked, turned, moved)
    \/ GameUpdate
    \/ SceneRender("ride")
    \/ HouseWork

SpecCache == InitStuck /\ [][NextCache]_vars

\* A timeout that is due runs before the next frame and before the next
\* input event is handled.
NextRound ==
    \/ \E deltaTime \in RoundFrameTimes :
          /\ frames < MaxRoundFrames
          /\ \A t \in timers : now < t.due
          /\ RenderLoopDrive(deltaTime)
    \/ GameUpdate
    \/ \E outcome \in RoundOutcomes : SceneRender(outcome)
    \/ \E t \in timers : TimerDue(t)
    \/ frames < MaxRoundFrames /\ (\A t \in timers : now < t.due) /\ EscapeKey
    \/ frames < MaxRoundFrames /\ (\A t \in timers : now < t.due) /\ MenuRestart(1)

SpecRound == InitRound /\ [][NextRound]_vars

NextHold ==
    \/ \E groundItem \in groundItems : pickupGroundItem(groundItem)
    \/ \E itemDef \in groundItems : \E spot \in PlacementSpots : PlaceItem(itemDef, spot)
    \/ cancelPickup
    \/ EscapeKey

SpecHold == InitHold /\ [][NextHold]_vars

NextCargo ==
    \/ frames < MaxCargoFrames /\ ToggleItemPhysics
    \/ \E itemDef \in groundItems : \E spot \in PlacementSpots :
          frames < MaxCargoFrames /\ PlaceItem(itemDef, spot)
    \/ \E deltaTime \in CargoFrameTimes : frames < MaxCargoFrames /\ RenderLoopDrive(deltaTime)
    \/ GameUpdate
    \/ \E outcome \in PhysicsOutcomes : SceneRender(outcome)

SpecCargo == InitCargo /\ [][NextCargo]_vars

NextGear ==
    \/ \E k \in GearKeys : frames < MaxGearFrames /\ KeyDown(k)
    \/ \E k \in GearKeys : frames < MaxGearFrames /\ KeyUp(k)
    \/ \E deltaTime \in GearFrameTimes : frames < MaxGearFrames /\ RenderLoopDrive(deltaTime)
    \/ GameUpdate
    \/ SceneRender("ride")

SpecGear == InitGear /\ [][NextGear]_vars

SpecWalls == InitWalls /\ [][\E d \in ProbeMoves : Probe(d)]_vars

NextStuck ==
    \/ HouseWork
    \/ \E deltaTime \in StuckFrameTimes :
          frames < MaxStuckFrames /\ RenderLoopDrive(deltaTime)
    \/ GameUpdate
    \/ SceneRender("ride")

\* engine.runRenderLoop: the loop's callback is called for every frame and
\* runs through its three stages.
FrameStep ==
    \/ pc = "loop" /\ frames < MaxStuckFrames /\ pc' = "update"
    \/ pc = "update" /\ pc' = "render"
    \/ pc = "render" /\ pc' = "loop"

SpecStuck == InitStuck /\ [][NextStuck]_vars /\ WF_pc(FrameStep)

\* engine.getDeltaTime(), ms: a 120 Hz frame, a frame just under 1/60 s, a
\* slow frame.
StartFrameTimes == {8, 16, 50}

\* The truck at rest on the open road with forward held.
InitStart == InRound(1, OpenRoad, Motion(0, 0), {"w"}, <<>>)

NextStart ==
    \/ \E deltaTime \in StartFrameTimes :
          frames < MaxStuckFrames /\ RenderLoopDrive(deltaTime)
    \/ GameUpdate
    \/ SceneRender("ride")

SpecStart == InitStart /\ [][NextStart]_vars /\ WF_pc(FrameStep)

\* ------------------------------------------------------------------------
\* Properties
\* ------------------------------------------------------------------------

\* C1: after every updateDriving call, whatever the held keys, the frame
\* time, the auto-brake timer and the outcome of the move check, the speed
\* lies between -maxSpeed (forward) and +0.3 * maxSpeed (reverse).
C1_SpeedInRange == -maxSpeed <= speed /\ speed <= ReverseLimit

\* updateDriving has just clamped a reversing truck at the reverse limit.
C1_ClampedInReverse ==
    pc = "update" /\ drive.ran /\ "s" \in keys /\ speed = ReverseLimit

C3_FallenStaysFallen ==
    [][ \A i \in 1..Len(loadedItems) :
            loadedItems[i].isFallen =>
                i <= Len(loadedItems') /\ loadedItems'[i].isFallen ]_vars

\* A pre-step pass has just run over an item that was already fallen.
C3_FallenThroughPreStep ==
    /\ pc = "update"
    /\ drive.ran
    /\ drive.itemPhysics
    /\ \E i \in 1..Len(loadedItems) : loadedItems[i].isFallen

\* C4: the fallen callback is edge-triggered per item: it is raised at most
\* once for an item, and only in the step in which the item's fallen flag
\* goes from clear to set.
C4_SignalOnEdgeOnly ==
    /\ [](\A i \in 1..Len(loadedItems) : loadedItems[i].signals <= 1)
    /\ [][ \A i \in 1..Len(loadedItems) :
              (i <= Len(loadedItems') /\ loadedItems'[i].signals # loadedItems[i].signals)
                  => /\ ~loadedItems[i].isFallen
                     /\ loadedItems'[i].isFallen
                     /\ loadedItems'[i].signals = loadedItems[i].signals + 1 ]_vars

\* Game.update has run again in a frame after the one in which it raised
\* the callback for an item (the loss timer was armed in an earlier frame).
C4_UpdatedAgainAfterSignal ==
    /\ pc = "render"
    /\ isRunning
    /\ ~isPaused
    /\ \E i \in 1..Len(loadedItems) : loadedItems[i].signals = 1
    /\ \E t \in timers : t.kind = "itemFellOutLoss" /\ t.due < now + 800

\* C5: an item whose fallen flag is set, whichever pass set it, has the
\* round's fell-out signal raised: once Game.update has run in a running,
\* unpaused round, a fallen item means the signal was raised.
C5_FallenMeansSignalled ==
    (pc = "render" /\ isRunning /\ ~isPaused) =>
        ((\E i \in 1..Len(loadedItems) : loadedItems[i].isFallen) => fallOutTriggered)

\* C6 as stated: when the broker rejects the rotated pose, position,
\* heading, turn rate and drift angle after the frame equal their values
\* before the update.
C6_VetoRestoresEverything ==
    (pc = "update" /\ drive.ran /\ drive.rotBlocked) =>
        /\ position = [x |-> drive.prev.x, z |-> drive.prev.z]
        /\ rotation = drive.prev.rot
        /\ turnRate = drive.prevTurnRate
        /\ driftAngle = drive.prevDriftAngle

\* C6: when the broker rejects the rotated pose, the heading is the one
\* before the update, turn rate and drift angle are zero, and the position
\* is the one before the update moved by the frame's translation step
\* (not moved when the translation is rejected too).
C6_VetoRestoresPoseZeroesSteering ==
    (pc = "update" /\ drive.ran /\ drive.rotBlocked) =>
        /\ rotation = drive.prev.rot
        /\ turnRate = 0
        /\ driftAngle = 0
        /\ position = IF drive.moveBlocked
                      THEN [x |-> drive.prev.x, z |-> drive.prev.z]
                      ELSE [x |-> drive.prev.x + drive.moveX,
                            z |-> drive.prev.z + drive.moveZ]

\* A rejected rotation in a frame whose translation went through.
C6_VetoedThenMoved ==
    /\ pc = "update"
    /\ drive.ran
    /\ drive.rotBlocked
    /\ ~drive.moveBlocked
    /\ position # [x |-> drive.prev.x, z |-> drive.prev.z]

\* C7: when the rotated pose of a frame overlaps a static collider, the
\* collision check rejects it and the heading after updateDriving is the
\* heading before the call.
C7_RotationIntoColliderBlocked ==
    (pc = "update" /\ drive.ran /\ drive.rotAttempted /\ drive.rotWouldHit) =>
        (drive.rotBlocked /\ rotation = drive.prev.rot)

\* The truck tried to swing into a collider and was held at its heading.
C7_SwingIntoHouseHeld ==
    /\ pc = "update"
    /\ drive.ran
    /\ drive.rotAttempted
    /\ drive.rotWouldHit
    /\ drive.turned.rot # drive.prev.rot
    /\ rotation = drive.prev.rot

\* C8 as stated: after every post-step pass every dynamic item's velocity
\* differs from the vehicle's by at most 8 m/s in magnitude, and its angular
\* speed is at most 3 rad/s.
C8_RelativeSpeedCapped ==
    (pc = "loop" /\ frames > 0) =>
        \A i \in 1..Len(loadedItems) :
            LET item == loadedItems[i]
                rx == item.vel.x - truckWorldVel.x
                rz == item.vel.z - truckWorldVel.z
            IN  item.motionType = "DYNAMIC" =>
                    /\ rx * rx + item.vel.y * item.vel.y + rz * rz
                           <= MAX_REL_LINEAR_VELOCITY * MAX_REL_LINEAR_VELOCITY
                    /\ Abs(item.angSpeed) <= MAX_ANGULAR_VELOCITY

\* C8: after every post-step pass every dynamic item still tracked on the
\* bed has a horizontal velocity within 8 m/s of the vehicle's, a vertical
\* speed of at most 4 m/s and an angular speed of at most 3 rad/s.
C8_HorizontalVerticalAngularCapped ==
    (pc = "loop" /\ frames > 0) =>
        \A i \in 1..Len(loadedItems) :
            LET item == loadedItems[i]
                rx == item.vel.x - truckWorldVel.x
                rz == item.vel.z - truckWorldVel.z
            IN  (item.motionType = "DYNAMIC" /\ ~item.isFallen) =>
                    /\ rx * rx + rz * rz
                           <= MAX_REL_LINEAR_VELOCITY * MAX_REL_LINEAR_VELOCITY
                    /\ Abs(item.vel.y) <= MAX_VERTICAL_VELOCITY
                    /\ Abs(item.angSpeed) <= MAX_ANGULAR_VELOCITY

\* The post-step pass has pulled a knocked item back to the ceilings: its
\* horizontal relative speed is exactly 8 m/s, its fall 4 m/s, its spin 3.
C8_PulledBackToCeilings ==
    /\ pc = "loop"
    /\ frames > 0
    /\ \E i \in 1..Len(loadedItems) :
          /\ loadedItems[i].motionType = "DYNAMIC"
          /\ ~loadedItems[i].isFallen
          /\ loadedItems[i].vel.y = -MAX_VERTICAL_VELOCITY
          /\ loadedItems[i].angSpeed = MAX_ANGULAR_VELOCITY
          /\ (loadedItems[i].vel.x - truckWorldVel.x) * (loadedItems[i].vel.x - truckWorldVel.x)
               + (loadedItems[i].vel.z - truckWorldVel.z) * (loadedItems[i].vel.z - truckWorldVel.z)
               = MAX_REL_LINEAR_VELOCITY * MAX_REL_LINEAR_VELOCITY

\* C9: a teleported body is back in the mode it had before the teleport
\* once its window is over, for every sequence of frames: every item is
\* created dynamic, so an item with no restore pending is dynamic.
C9_RestoredToPriorMode ==
    \A i \in 1..Len(loadedItems) :
        loadedItems[i].restoreMotionAt = 0 => loadedItems[i].motionType = "DYNAMIC"

\* C10 as stated: in every frame in which the physics engine steps, the bed
\* bodies were synced and the pre-step pass ran before the step, and the
\* post-step pass ran after it.
C10_EveryStepBracketed ==
    (pc = "loop" /\ frames > 0) =>
        /\ passLog = <<"sync", "prestep", "step", "poststep">>
        /\ bedPose = Pose(position.x, position.z, rotation)

\* C10: in every frame in which the game is running and item physics is
\* enabled, the bed bodies have the newly committed pose before the physics
\* step, the pre-step pass ran before the step, and the post-step pass ran
\* after it, before the next drivetrain update.
C10_RunningFramesBracketed ==
    /\ (pc \in {"update", "render"} /\ drive.ran /\ drive.itemPhysics) =>
          /\ passLog = <<"sync", "prestep">>
          /\ bedPose = Pose(position.x, position.z, rotation)
    /\ (pc = "loop" /\ frames > 0 /\ drive.ran /\ drive.itemPhysics) =>
          /\ passLog = <<"sync", "prestep", "step", "poststep">>
          /\ bedPose = Pose(position.x, position.z, rotation)

\* A running frame with item physics on has ended, after the truck moved.
C10_MovedFrameEnded ==
    /\ pc = "loop"
    /\ frames > 0
    /\ drive.ran
    /\ drive.itemPhysics
    /\ Len(loadedItems) > 0
    /\ position # [x |-> drive.prev.x, z |-> drive.prev.z]

\* C11: hysteresis. In an updateDriving call made in forward gear g, if the
\* speed the gearbox sees is forward, at or above the downshift threshold of
\* g and (for g < 5) below the upshift threshold of g + 1, the gear after
\* the call is still g.
C11_GearHeldInsideBand ==
    [][ ( /\ pc = "loop"
          /\ pc' = "update"
          /\ drive'.ran
          /\ currentGear \in 1..5
          /\ drive'.shiftSpeed < 0
          /\ Abs(drive'.shiftSpeed) >= gearDownSpeeds[currentGear + 1]
          /\ (currentGear < 5 => Abs(drive'.shiftSpeed) < gearSpeeds[currentGear + 2]) )
        => currentGear' = currentGear ]_vars

\* Gear 2 has just been kept at a speed between its downshift threshold and
\* its upshift threshold, in a frame after the first.
C11_HeldBelowUpshiftSpeed ==
    /\ pc = "update"
    /\ drive.ran
    /\ frames >= 1
    /\ drive.prevGear = 2
    /\ currentGear = 2
    /\ Abs(drive.shiftSpeed) >= gearDownSpeeds[3]
    /\ Abs(drive.shiftSpeed) < gearSpeeds[3]

\* C12 as stated: after every drivetrain update the gear is -1 in reverse,
\* 0 when nearly stationary, and otherwise a forward gear whose threshold
\* (upshift when coming from below, downshift otherwise) is met by |speed|,
\* the highest such.
C12_GearIsHighestMet ==
    (pc = "update" /\ drive.ran) =>
        IF drive.shiftSpeed > 500 THEN currentGear = -1
        ELSE IF drive.shiftSpeed >= -500 THEN currentGear = 0
        ELSE /\ currentGear \in 1..5
             /\ \A g \in 1..5 :
                   (Abs(drive.shiftSpeed) >=
                       (IF drive.prevGear >= g THEN gearDownSpeeds[g + 1]
                        ELSE gearSpeeds[g + 1]))
                   <=> g <= currentGear

\* C12: after every drivetrain update the gear is -1 in reverse, 0 when
\* nearly stationary, and otherwise the highest forward gear from 2 to 5
\* whose threshold is met by the speed the gearbox sees, or 1 when none of
\* those is met: the level-1 threshold plays no part.
C12_GearIsHighestMetOrFirst ==
    (pc = "update" /\ drive.ran) =>
        IF drive.shiftSpeed > 500 THEN currentGear = -1
        ELSE IF drive.shiftSpeed >= -500 THEN currentGear = 0
        ELSE /\ currentGear \in 1..5
             /\ \A g \in 2..5 :
                   (Abs(drive.shiftSpeed) >=
                       (IF drive.prevGear >= g THEN gearDownSpeeds[g + 1]
                        ELSE gearSpeeds[g + 1]))
                   <=> g <= currentGear

\* Accelerating from rest, the gear has just gone from neutral to first at
\* a speed below the level-1 upshift threshold.
C12_FirstGearFromRest ==
    /\ pc = "update"
    /\ drive.ran
    /\ "w" \in keys
    /\ drive.prevGear = 0
    /\ currentGear = 1
    /\ Abs(drive.shiftSpeed) < gearSpeeds[2]

\* C13: a dynamic, tracked item whose right edge is beyond the right wall's
\* inner plane in the truck's frame when the pre-step pass starts is, after
\* that one pass, at local X = wallInnerX - halfWidth - 0.05 m (to within
\* 5 mm) with no velocity towards that wall, at every heading.
C13_PreStepRelocatesFromRightWall ==
    [][ (pc = "loop" /\ pc' = "update" /\ drive'.ran /\ drive'.itemPhysics) =>
          \A i \in 1..Len(loadedItems) :
              LET item == loadedItems[i]
                  after == loadedItems'[i]
                  halfX == item.size.x \div 2
                  before == WorldToRootX(item.pos.x - position'.x,
                                         item.pos.z - position'.z, rotation')
                  lx == WorldToRootX(after.pos.x - position'.x,
                                     after.pos.z - position'.z, rotation')
                  lvx == WorldToRootX(after.vel.x, after.vel.z, rotation')
              IN  ( /\ item.motionType = "DYNAMIC"
                    /\ item.restoreMotionAt = 0
                    /\ ~item.isFallen
                    /\ before + halfX > cargoWidth \div 2
                    /\ before + halfX <= cargoWidth \div 2 + 1000 )
                  => /\ Abs(lx - (cargoWidth \div 2 - halfX - 50)) <= 5
                     /\ lvx <= 0 ]_vars

\* C14: an item just committed by placeItem has no rigid body: the body is
\* due later, at createPhysicsAt.
C14_NoBodyAtCommit ==
    [][ \A i \in 1..Len(loadedItems') :
            i > Len(loadedItems) =>
                /\ ~loadedItems'[i].hasBody
                /\ loadedItems'[i].createPhysicsAt > now ]_vars

\* C15 as stated: from a pose that already has penetrating points, the
\* check approves every candidate whose count of penetrating points is not
\* greater than the current pose's.
C15_ApprovedWhenNotWorse ==
    (probe.asked /\ probe.currentCollisions > 0
        /\ probe.newCollisions <= probe.currentCollisions) => ~probe.blocking

\* C15: from a pose that already has penetrating points, the check
\* approves exactly the candidates whose count of penetrating points is
\* lower than the current pose's; an equal or higher count is rejected.
C15_ApprovedWhenFewer ==
    (probe.asked /\ probe.currentCollisions > 0) =>
        (~probe.blocking <=> probe.newCollisions < probe.currentCollisions)

\* A move along the wall that keeps the same points inside it was rejected,
\* from a pose in which the truck's meshes touch nothing.
C15_SameCountRejected ==
    /\ probe.asked
    /\ probe.currentCollisions > 0
    /\ probe.newCollisions = probe.currentCollisions
    /\ <<probe.newX, probe.newZ>> # <<position.x, position.z>>
    /\ probe.blocking
    /\ ~checkMeshCollision(NoCache, position.x, position.z, rotation).result

\* C16: a truck whose pose overlaps a live static collider when the frames
\* begin, with reverse held to back its nose out of the collider, eventually
\* reaches a pose that overlaps none.
C16_StuckTruckGetsFree ==
    (frames = 0 /\ "s" \in keys
        /\ OverlapsStaticCollider(position.x, position.z, rotation))
        ~> ~OverlapsStaticCollider(position.x, position.z, rotation)

\* C17: a collider or wall that is missing or disposed never blocks: when
\* updateDriving refuses the rotation or the move of a frame, a live
\* collider of the scene overlaps the pose it refused.
C17_OnlyLiveCollidersBlock ==
    (pc = "update" /\ drive.ran) =>
        /\ drive.rotBlocked =>
              OverlapsStaticCollider(drive.turned.x, drive.turned.z, drive.turned.rot)
        /\ drive.moveBlocked =>
              OverlapsStaticCollider(position.x + drive.moveX, position.z + drive.moveZ,
                                     rotation)

\* The truck drove into the footprint of a disposed collider, or of a wall
\* that is gone, and the move was committed.
C17_DroveThroughAbsentCollider ==
    /\ pc = "update"
    /\ drive.ran
    /\ ~drive.moveBlocked
    /\ position # [x |-> drive.prev.x, z |-> drive.prev.z]
    /\ \E h \in housesByTile \cup pickupHouse \cup destinationWalls :
          h.disposed /\ ProxyHits(position.x, position.z, rotation, HouseBox(h))

\* C18 as stated: the speed is always within [-0.3 * maxSpeed, +maxSpeed].
C18_SpeedInStatedRange ==
    (pc = "update" /\ drive.ran) => (-ReverseLimit <= speed /\ speed <= maxSpeed)

\* C18: the speed is always within [-maxSpeed, +0.3 * maxSpeed], negative
\* speed meaning forward and positive speed meaning reverse: after a
\* drivetrain update a forward gear goes with a negative speed and the
\* reverse gear with a positive one.
C18_ForwardNegativeReversePositive ==
    /\ speed >= -maxSpeed
    /\ speed <= ReverseLimit
    /\ (pc = "update" /\ drive.ran) =>
          /\ currentGear >= 1 => drive.shiftSpeed < 0
          /\ currentGear = -1 => drive.shiftSpeed > 0

\* The truck drives forward, in a forward gear, faster than the reverse
\* limit.
C18_ForwardBeyondReverseLimit ==
    /\ pc = "update"
    /\ drive.ran
    /\ "w" \in keys
    /\ currentGear >= 1
    /\ speed < -ReverseLimit
    /\ ~drive.moveBlocked
    /\ position # [x |-> drive.prev.x, z |-> drive.prev.z]

\* C19: in every frame that leaves the auto-brake timer running, whatever
\* keys are held, updateDriving moves the speed toward zero by the braking
\* rate times the frame time (stopping at zero) and its magnitude does not
\* grow; in a frame that ends with the timer expired a speed within 0.2 mph
\* of zero becomes exactly 0.
C19_AutoBrakeOverridesInput ==
    [][ (pc = "loop" /\ pc' = "update" /\ isRunning) =>
          /\ autoBrakeTimer' > 0 =>
                /\ Abs(drive'.shiftSpeed)
                      = Max(0, Abs(speed)
                                 - brakeDeceleration * (autoBrakeTimer - autoBrakeTimer'))
                /\ drive'.shiftSpeed * speed >= 0
                /\ Abs(speed') <= Abs(speed)
          /\ autoBrakeTimer' = 0 =>
                (drive'.shiftSpeed = 0 \/ Abs(drive'.shiftSpeed) >= 200) ]_vars

\* A second braking frame with forward held: the truck is slower than it
\* arrived and the timer still runs.
C19_BrakedWithForwardHeld ==
    /\ pc = "update"
    /\ drive.ran
    /\ frames >= 1
    /\ "w" \in keys
    /\ autoBrakeTimer > 0
    /\ drive.shiftSpeed < 0
    /\ drive.shiftSpeed > -3100 + brakeDeceleration * 17

\* C20: after the translation step of updateDriving, if the collision check
\* refused the integrated position the position is the one the rotation step
\* left and the speed is half the speed the step began with; otherwise the
\* position is the integrated position and the speed is the one the step
\* began with.
C20_BlockedMoveDiscardedSpeedHalved ==
    (pc = "update" /\ drive.ran) =>
        LET kept == IF drive.rotBlocked THEN drive.prev ELSE drive.turned
        IN  IF drive.moveBlocked
            THEN /\ position = [x |-> kept.x, z |-> kept.z]
                 /\ speed = TruncDiv(drive.shiftSpeed, 2)
            ELSE /\ position = [x |-> kept.x + drive.moveX, z |-> kept.z + drive.moveZ]
                 /\ speed = drive.shiftSpeed

\* A move into a collider was refused: the truck stands where it stood and
\* rolls on at half its speed.
C20_RefusedMoveAtHalfSpeed ==
    /\ pc = "update"
    /\ drive.ran
    /\ drive.moveBlocked
    /\ ~drive.rotAttempted
    /\ drive.moveZ # 0
    /\ position = [x |-> drive.prev.x, z |-> drive.prev.z]
    /\ speed # 0
    /\ speed = TruncDiv(drive.shiftSpeed, 2)

\* C21: the rear of the bed is open in both passes at every heading: a
\* tracked item that is inside the side walls and behind the front wall by
\* the safety margin in the truck's frame, however far to the rear, is left
\* where it is by the pre-step pass and by the post-step pass.
C21_RearOpenInBothPasses ==
    [][ /\ (pc = "loop" /\ pc' = "update" /\ drive'.ran /\ drive'.itemPhysics) =>
              \A i \in 1..Len(loadedItems) :
                  LET item == loadedItems[i]
                      lx == WorldToRootX(item.pos.x - position'.x,
                                         item.pos.z - position'.z, rotation')
                      lz == WorldToRootZ(item.pos.x - position'.x,
                                         item.pos.z - position'.z, rotation')
                  IN  ( /\ ~item.isFallen
                        /\ Abs(lx) + item.size.x \div 2 + safeMargin <= cargoWidth \div 2
                        /\ lz - item.size.z \div 2 - safeMargin >= -(cargoLength \div 2) )
                      => /\ loadedItems'[i].pos = item.pos
                         /\ loadedItems'[i].restoreMotionAt \in {0, item.restoreMotionAt}
        /\ (pc = "render" /\ pc' = "loop") =>
              \A i \in 1..Len(loadedItems) :
                  LET after == loadedItems'[i]
                      lx == WorldToRootX(after.pos.x - position.x,
                                         after.pos.z - position.z, rotation)
                      lz == WorldToRootZ(after.pos.x - position.x,
                                         after.pos.z - position.z, rotation)
                  IN  ( /\ ~loadedItems[i].isFallen
                        /\ after.createPhysicsAt = 0
                        /\ Abs(after.localX) + after.size.x \div 2 + safeMargin
                              <= cargoWidth \div 2
                        /\ after.localZ - after.size.z \div 2 - safeMargin
                              >= -(cargoLength \div 2) )
                      => /\ Abs(lx - after.localX) <= 2
                         /\ Abs(lz - after.localZ) <= 2 ]_vars

\* C22: once an item is fallen, no pre-step or post-step pass writes its
\* body again: its motion type, its velocities and its position are the same
\* after the pass as before it.
C22_FallenItemNeverWritten ==
    [][ (pc \in {"loop", "render"} /\ pc' # pc) =>
          \A i \in 1..Len(loadedItems) :
              loadedItems[i].isFallen =>
                  /\ loadedItems'[i].motionType = loadedItems[i].motionType
                  /\ loadedItems'[i].vel = loadedItems[i].vel
                  /\ loadedItems'[i].angSpeed = loadedItems[i].angSpeed
                  /\ loadedItems'[i].pos = loadedItems[i].pos ]_vars

\* C23: every cargo item goes through its phases in order (0 pending body,
\* 1 kinematic settling, 2 dynamic, 3 fallen): a newly committed item
\* starts pending, and no step moves an item back or over a phase (a dynamic
\* item may become fallen).
C23_PhasesInOrder ==
    [][ \A i \in 1..Len(loadedItems') :
            LET phase(item) == IF item.isFallen THEN 3
                               ELSE IF ~item.hasBody THEN 0
                               ELSE IF item.becomeDynamicAt > 0 THEN 1
                               ELSE 2
            IN  IF i > Len(loadedItems) THEN phase(loadedItems'[i]) = 0
                ELSE phase(loadedItems'[i]) \in
                         { phase(loadedItems[i]), phase(loadedItems[i]) + 1 } ]_vars

\* C27: within one post-step pass no item is both teleported back inside
\* the bed and marked fallen: an item that the pass marks fallen is left
\* where the pass measured it (its stored local position).
C27_NotTeleportedAndFallen ==
    [][ (pc = "render" /\ pc' = "loop") =>
            \A i \in 1..Len(loadedItems) :
                LET after == loadedItems'[i]
                    lx == WorldToRootX(after.pos.x - position.x, after.pos.z - position.z,
                                       rotation)
                    lz == WorldToRootZ(after.pos.x - position.x, after.pos.z - position.z,
                                       rotation)
                IN  (~loadedItems[i].isFallen /\ after.isFallen) =>
                        /\ Abs(lx - after.localX) <= 2
                        /\ Abs(lz - after.localZ) <= 2 ]_vars

\* C24: the collision cache never changes an answer: every answer that
\* updateDriving gets from checkMeshCollision equals the uncached scan of the
\* asked pose at that moment, and the entry that answered was computed in
\* the current frame.
C24_CacheNeverChangesAnswer ==
    [][ (pc = "loop" /\ pc' = "update" /\ probe'.asked) =>
            /\ probe'.rotChecked =>
                  probe'.rotAnswer = MeshCollisionScan(probe'.turned.x, probe'.turned.z,
                                                       probe'.turned.rot)
            /\ probe'.moveAnswer = MeshCollisionScan(probe'.moved.x, probe'.moved.z,
                                                     probe'.moved.rot)
            /\ collisionCache'.frameId = frameId ]_vars

\* C24 witness: in a later frame, after a house arrived, the movement check
\* asks the pose the rotation check just asked and is told of the collision.
C24_SamePoseAskedTwice ==
    /\ frames >= 1
    /\ probe.asked
    /\ probe.rotChecked
    /\ probe.turned = probe.moved
    /\ probe.moveAnswer
    /\ collisionCache.frameId = frameId

\* C25: from rest on the open road (speed 0, no auto-brake, nothing in the
\* way) with forward held, the truck eventually moves, whatever the frame
\* times: its speed becomes nonzero and its position changes.
C25_StartsFromRest ==
    (frames = 0 /\ speed = 0 /\ autoBrakeTimer = 0 /\ keys = {"w"} /\ ~modalBlocking
        /\ ~OverlapsStaticCollider(position.x, position.z, rotation))
        ~> (speed # 0 /\ (position.x # OpenRoad.x \/ position.z # OpenRoad.z))

\* C26: the pre-step pass computes the same truck-local (x, z) for an item
\* as the post-step pass and the fallen check of Game.update do for the same
\* truck pose and item position: the local position the pre-step pass
\* stores is the one taken with the cosine and sine of -rotation.
C26_PassesAgreeOnLocalPosition ==
    [][ (pc = "loop" /\ pc' = "update" /\ drive'.ran /\ drive'.itemPhysics) =>
            \A i \in 1..Len(loadedItems) :
                LET item == loadedItems[i]
                    after == loadedItems'[i]
                    dx == item.pos.x - position'.x
                    dz == item.pos.z - position'.z
                IN  (item.hasBody /\ item.createPhysicsAt = 0 /\ item.becomeDynamicAt = 0) =>
                        /\ after.localX = ToLocalX(dx, dz, Cos(EnforceFrameAngle(rotation')),
                                                   Sin(EnforceFrameAngle(rotation')))
                        /\ after.localX = ToLocalX(dx, dz, Cos(-rotation'), Sin(-rotation'))
                        /\ after.localZ = ToLocalZ(dx, dz, Cos(EnforceFrameAngle(rotation')),
                                                   Sin(EnforceFrameAngle(rotation')))
                        /\ after.localZ = ToLocalZ(dx, dz, Cos(-rotation'), Sin(-rotation')) ]_vars

\* C28: a round has at most one outcome: the level-complete result and the
\* item-fell-out loss are never both delivered to the same round.
C28_AtMostOneOutcome ==
    ~({"complete", "loss"} \subseteq outcomes)

\* C29: a screen is delivered only to the round that earned it: a timeout
\* that shows the results finds the destination reached in the current
\* round, and one that shows the game-over screen finds an item fallen in
\* the current round.
C29_OutcomeBelongsToRound ==
    [][ /\ ("complete" \in outcomes' /\ "complete" \notin outcomes)
            => hasArrivedAtDestination
        /\ ("loss" \in outcomes' /\ "loss" \notin outcomes)
            => fallOutTriggered ]_vars

\* C30: whenever a ground item is held, it is the selected item and the
\* placement preview shows it.
C30_HeldItemIsSelected ==
    heldGroundItem # Null =>
        /\ selectedItemId = heldGroundItem
        /\ previewItemDef = heldGroundItem

====
